---- MODULE Spec2Model ----
(***************************************************************************)
(* A model of jaiger: the tool supervisor (ToolManager), the tool worker   *)
(* process (ToolProcess.run) with its duplex pipe, and the agent loop      *)
(* (Jaiger.prompt).                                                        *)
(*                                                                         *)
(* Spec       the supervisor and its workers: the orchestrator thread      *)
(*            starts and stops tools; call, call_async and tools() run on  *)
(*            client and pool threads and interleave freely.               *)
(* SpecAgent  one Jaiger.prompt request against a started runtime.         *)
(***************************************************************************)
EXTENDS Integers, Sequences, FiniteSets, TLC

\* ------------------------------------------------------------------ bounds
\* Worker processes ever created (each start() gets a fresh Pipe and ToolProcess).
MaxProc == 3
\* Concurrent executions of the send/recv protocol (client threads + pool threads).
MaxTasks == 2
\* Operations (start, stop, call, call_async, tools) issued in one behaviour of Spec.
MaxOps == 4

\* Model replies that ask for tool calls in one Jaiger.prompt request, and the
\* tool calls they ask for in total.
MaxRounds == 2
MaxCalls == 2
\* Frames in flight on the RPC fabric.
MaxSend == 2
\* Calls issued on the RPC clients, and calls the HTTP facade serves.
MaxRpc == 2
MaxHttp == 4

\* ------------------------------------------------------------------ values
None == "None"
\* CallResult.error is None (no error) or a formatted trace.
NoError == << >>
Names == {"a", "b"}
\* The tool that call and call_async name, and the workers start() is given:
\* tool a's constructor/setup may fail, tool b's does not.
CallNames == {"a"}
StartInputs == {<<"a", "none">>, <<"a", "setup">>, <<"b", "none">>}
Procs == 1 .. MaxProc
Tasks == 1 .. MaxTasks

\* The methods of the modelled tool class: f returns a value that depends on its
\* argument, boom raises, specs is Tool.specs.  Any other name is no attribute.
SpecsName == "specs"
SPECS == "SPECS"
FValue(arg) == IF arg = "x" THEN "fx" ELSE "fy"
StrE == "boom!"

\* models.Call and models.CallResult
Call(function, args) == [function |-> function, args |-> args]
CallResult(result, error) == [result |-> result, error |-> error]
Requests == {Call("f", "x"), Call("boom", "x")}
\* args == [] (the default of ToolManager.call)
NoArgs == ""
\* The methods every tool has from the base class besides specs, and what
\* they return.
BaseMethods == {"config", "setup", "teardown", "_get_specs"}
CONFIG == "CONFIG"
BaseValue(function) ==
    CASE function = "config" -> CONFIG
      [] function = "_get_specs" -> SPECS
      [] OTHER -> None
\* getattr finds the method and the call binds its arguments: the method runs.
Runs(request) == request.function \in BaseMethods /\ request.args = NoArgs

\* "".join(traceback.TracebackException.from_exception(e).format()): the text
\* ends with the line "<type>: <str(e)>".
FormatTrace(type, str) == <<"Traceback (most recent call last):", type, str>>

\* What the worker replies to one request (the body of the loop in run()).
ServeRequest(request) ==
    CASE request.function = "f" -> CallResult(FValue(request.args), NoError)
      [] request.function = SpecsName -> CallResult(SPECS, NoError)
      [] request.function = "boom" ->
            CallResult(None, FormatTrace("RuntimeError", StrE))
      [] request.function \in BaseMethods ->
            IF Runs(request)
            THEN CallResult(BaseValue(request.function), NoError)
            ELSE CallResult(None, FormatTrace("TypeError", request.function))
      [] OTHER -> CallResult(None, FormatTrace("AttributeError", request.function))

\* ------------------------------------------------------------------ state
VARIABLES
    conns,      \* ToolManager._conns, in insertion order: <<[name, p]>>
    processes,  \* ToolManager._processes: name -> process
    proc,       \* per process: position in run(), stop event, tool behaviour
    inbox,      \* per process: Calls sent on the pipe, not yet received by the worker
    outbox,     \* per process: CallResults sent by the worker, not yet received
    task,       \* executions of ToolManager.call / get_tool_info
    tinv,       \* the tools() invocation in progress
    orch,       \* the orchestrator thread: start / stop in progress and its outcome
    life,       \* per name: what the last completed start/stop did
    nops,       \* operations issued so far
    agent,      \* the Jaiger.prompt request (SpecAgent)
    ais,        \* AiManager._ais, in insertion order: the drivers
    aiop,       \* the last add_ai / remove_ai / prompt of the registry and its outcome
    reg,        \* the AiManager.register_tools invocation
    boot,       \* the Jaiger.start invocation
    halt,       \* the Jaiger.stop invocation
    brk,        \* broker_task: its position and its stop event
    wire,       \* the broker's ROUTER socket: frames received, not yet routed
    sock,       \* per peer identity: frames delivered to its DEALER socket
    srv,        \* server_task: its position, stop event and futures
    cli,        \* RpcClient: the executions of call / call_async
    link,       \* RpcClient: per client, what its socket is
    http,       \* HttpServer: the calls served
    front,      \* Jaiger: the transports __init__ made and whether they run
    chat        \* a model driver's conversation and the requests that prompt it

\* The RPC fabric and the HTTP facade.
rpc == <<brk, wire, sock, srv, cli, link, http, front, chat>>

vars == <<conns, processes, proc, inbox, outbox, task, tinv, orch, life, nops, agent,
          ais, aiop, reg, boot, halt, rpc>>

\* ------------------------------------------------------------------ helpers
Has(name) == \E i \in 1 .. Len(conns) : conns[i].name = name
ConnOf(name) == (CHOOSE i \in 1 .. Len(conns) : conns[i].name = name)
ConnProc(name) == conns[ConnOf(name)].p
ConnNames == {conns[i].name : i \in 1 .. Len(conns)}
RemoveAt(s, i) == [j \in 1 .. Len(s) - 1 |-> IF j < i THEN s[j] ELSE s[j + 1]]

\* How an operation ended: "return" with a value, or the exception raised.
Outcome(kind, val, err) == [kind |-> kind, val |-> val, err |-> err]
NoOutcome == Outcome("none", None, NoError)

\* What the last completed start/stop of a name did, and the process the last
\* successful start was given.
NoLife == [st |-> "never", p |-> 0]

FreeTask == [kind |-> "none", st |-> "free", tool |-> None,
             req |-> Call(None, None), p |-> 0, out |-> NoOutcome,
             life |-> NoLife]

NewProc == [pc |-> "unused", stop |-> FALSE, fault |-> "none",
            closed |-> FALSE, teardowns |-> 0, ran |-> {}]

\* A task record is free once its execution is over and its outcome was taken
\* (a tools() invocation takes the outcomes of its get_tool_info in ToolsReturn).
\* Records are taken in order: which free record an execution gets is of no
\* consequence; a finished record is free once nobody waits for its outcome.
InTinv(t) == \E i \in 1 .. Len(tinv.order) : tinv.order[i] = t
Awaited(t) == InTinv(t) \/ (agent.pc = "recv" /\ agent.t = t)
FreeTasks == {t \in Tasks : task[t].st = "free" \/ (task[t].st = "done" /\ ~Awaited(t))}
NthFree(i) == CHOOSE t \in FreeTasks : Cardinality({u \in FreeTasks : u < t}) = i - 1

\* The process a start() would create: the lowest unused one.
FreshProc == CHOOSE p \in Procs : proc[p].pc = "unused" /\
                 \A q \in Procs : proc[q].pc = "unused" => p <= q

\* ------------------------------------------------------------------ worker
\* ToolProcess.run, lines 29-35: construct the tool and run setup().  A failure
\* lands in the outer except, which sends a CallResult nobody asked for, and then
\* in finally: teardown() if the tool was constructed, and close.
WorkerSetup(p) ==
    /\ proc[p].pc = "init"
    /\ IF proc[p].fault = "none"
       THEN /\ proc' = [proc EXCEPT ![p].pc = "loop"]
            /\ UNCHANGED outbox
       ELSE /\ outbox' = [outbox EXCEPT ![p] = Append(@,
                   CallResult(None, FormatTrace("SetupError", proc[p].fault)))]
            /\ proc' = [proc EXCEPT ![p].pc = "done", ![p].closed = TRUE,
                   ![p].teardowns = IF proc[p].fault = "setup" THEN @ + 1 ELSE @]
    /\ UNCHANGED <<conns, processes, inbox, task, tinv, orch, life, nops, agent, ais, aiop, reg, boot,
                   halt, rpc>>

\* The loop condition, line 37: leave the loop once the stop event is set;
\* finally runs teardown() and closes the worker's end.
MutWorkerCheck(p) ==
    /\ proc[p].pc = "loop"
    /\ IF proc[p].stop
       THEN proc' = [proc EXCEPT ![p].pc = "done", ![p].closed = TRUE]
       ELSE proc' = [proc EXCEPT ![p].pc = "poll"]
    /\ UNCHANGED <<conns, processes, inbox, outbox, task, tinv, orch, life, nops, agent, ais, aiop, reg, boot,
                   halt, rpc>>
WorkerCheck(p) ==
    /\ proc[p].pc = "loop"
    /\ IF proc[p].stop
       THEN proc' = [proc EXCEPT ![p].pc = "done", ![p].closed = TRUE,
                                 ![p].teardowns = @ + 1]
       ELSE proc' = [proc EXCEPT ![p].pc = "poll"]
    /\ UNCHANGED <<conns, processes, inbox, outbox, task, tinv, orch, life, nops, agent, ais, aiop, reg, boot,
                   halt, rpc>>

\* Lines 42-44: the base methods the worker has run at a caller's request.
Ran(p, request) ==
    IF Runs(request) THEN proc[p].ran \cup {request.function} ELSE proc[p].ran

\* Lines 39-55: poll; when a Call is there, receive it, invoke the method and
\* send the CallResult (the error trace when anything raised); back to the top.
MutWorkerPoll(p) ==
    /\ proc[p].pc = "poll"
    /\ IF inbox[p] # << >>
       THEN /\ inbox' = [inbox EXCEPT ![p] = Tail(@)]
            /\ outbox' = [outbox EXCEPT ![p] = Append(@, ServeRequest(Head(inbox[p])))]
            /\ proc' = [proc EXCEPT ![p].pc =
                          IF ServeRequest(Head(inbox[p])).error # NoError
                          THEN "done" ELSE "loop",
                                    ![p].ran = Ran(p, Head(inbox[p]))]
       ELSE /\ UNCHANGED <<inbox, outbox>>
            /\ proc' = [proc EXCEPT ![p].pc = "loop"]
    /\ UNCHANGED <<conns, processes, task, tinv, orch, life, nops, agent, ais, aiop, reg, boot,
                   halt, rpc>>
WorkerPoll(p) ==
    /\ proc[p].pc = "poll"
    /\ IF inbox[p] # << >>
       THEN /\ inbox' = [inbox EXCEPT ![p] = Tail(@)]
            /\ outbox' = [outbox EXCEPT ![p] = Append(@, ServeRequest(Head(inbox[p])))]
            /\ proc' = [proc EXCEPT ![p].pc = "loop", ![p].ran = Ran(p, Head(inbox[p]))]
       ELSE /\ UNCHANGED <<inbox, outbox>>
            /\ proc' = [proc EXCEPT ![p].pc = "loop"]
    /\ UNCHANGED <<conns, processes, task, tinv, orch, life, nops, agent, ais, aiop, reg, boot,
                   halt, rpc>>

\* ------------------------------------------------------------------ supervisor
\* ToolManager.start, lines 41-42: a registered name is refused.
MutStartCheck(name) ==
    "go"
StartCheck(name) ==
    IF Has(name) THEN "AlreadyExists" ELSE "go"

\* ToolManager.stop, lines 69-70: a name that is not registered is refused.
MutStopCheck(name) ==
    IF Has(name) THEN "go" ELSE "ok"
StopCheck(name) ==
    IF Has(name) THEN "go" ELSE "NotFound"

\* ToolManager.start, lines 38-48.
StartOp(name, fault) ==
    /\ orch.pc = "idle"
    /\ nops < MaxOps
    /\ \E p \in Procs : proc[p].pc = "unused"
    /\ nops' = nops + 1
    /\ IF StartCheck(name) # "go"
       THEN /\ orch' = [pc |-> "idle", op |-> "start", name |-> name, p |-> 0,
                        ret |-> StartCheck(name), alive |-> FALSE, batch |-> << >>]
            /\ UNCHANGED <<conns, processes, proc, life>>
       ELSE /\ conns' = Append(conns, [name |-> name, p |-> FreshProc])
            /\ processes' = [n \in DOMAIN processes \cup {name} |->
                               IF n = name THEN FreshProc ELSE processes[n]]
            /\ proc' = [proc EXCEPT ![FreshProc] = [NewProc EXCEPT !.pc = "init",
                                                                   !.fault = fault]]
            /\ life' = [life EXCEPT ![name] = [st |-> "started", p |-> FreshProc]]
            /\ orch' = [pc |-> "idle", op |-> "start", name |-> name, p |-> FreshProc,
                        ret |-> "ok", alive |-> FALSE, batch |-> << >>]
    /\ UNCHANGED <<inbox, outbox, task, tinv, agent, ais, aiop, reg, halt, rpc>>

Start(name, fault) ==
    /\ StartOp(name, fault)
    /\ UNCHANGED boot

\* ToolManager.stop, lines 69-73: the check, process.stop(), and the start of
\* process.join(timeout=10).
StopBeginOp(name) ==
    /\ orch.pc = "idle"
    /\ IF StopCheck(name) # "go"
       THEN /\ orch' = [pc |-> "idle", op |-> "stop", name |-> name, p |-> 0,
                        ret |-> StopCheck(name), alive |-> FALSE, batch |-> << >>]
            /\ UNCHANGED proc
       ELSE /\ proc' = [proc EXCEPT ![processes[name]].stop = TRUE]
            /\ orch' = [pc |-> "join", op |-> "stop", name |-> name,
                        p |-> processes[name], ret |-> "none", alive |-> FALSE,
                        batch |-> << >>]
    /\ UNCHANGED <<conns, processes, inbox, outbox, task, tinv, life, agent, ais, aiop, reg, boot,
                   rpc>>

StopBegin(name) ==
    /\ nops < MaxOps
    /\ nops' = nops + 1
    /\ StopBeginOp(name)
    /\ UNCHANGED halt

\* The entries stop() drops once join() is over (lines 81-82).
MutStopDrop(name) ==
    [conns |-> IF proc[processes[name]].pc = "done"
               THEN RemoveAt(conns, ConnOf(name)) ELSE conns,
     processes |-> IF proc[processes[name]].pc = "done"
                   THEN [n \in DOMAIN processes \ {name} |-> processes[n]]
                   ELSE processes]
StopDrop(name) ==
    [conns |-> RemoveAt(conns, ConnOf(name)),
     processes |-> [n \in DOMAIN processes \ {name} |-> processes[n]]]

\* ToolManager.stop, lines 74-84: join() is over, because the worker has exited
\* or because the 10 seconds have passed; a worker still alive is logged and
\* the entry is dropped all the same.
StopEndOp ==
    /\ orch.pc = "join"
    /\ conns' = StopDrop(orch.name).conns
    /\ processes' = StopDrop(orch.name).processes
    /\ life' = [life EXCEPT ![orch.name].st = "stopped"]
    /\ orch' = [orch EXCEPT !.pc = "idle", !.ret = "ok",
                            !.alive = (proc[orch.p].pc # "done")]
    /\ UNCHANGED <<proc, inbox, outbox, task, tinv, agent, ais, aiop, reg, boot, rpc>>

StopEnd ==
    /\ StopEndOp
    /\ UNCHANGED <<nops, halt>>

\* ToolManager.call, lines 119-123: the lookup and conn.send.  The parent keeps
\* the worker's end of the pipe open (ToolProcess._conn), so send does not fail
\* when the worker has exited.
CallStart(t, kind, name, req) ==
    IF ~Has(name)
    THEN /\ task' = [task EXCEPT ![t] = [kind |-> kind, st |-> "done", tool |-> name,
                 req |-> req, p |-> 0, out |-> Outcome("NotFound", None, NoError),
                 life |-> life[name]]]
         /\ UNCHANGED inbox
    ELSE /\ inbox' = [inbox EXCEPT ![ConnProc(name)] = Append(@, req)]
         /\ task' = [task EXCEPT ![t] = [kind |-> kind, st |-> "recv", tool |-> name,
                 req |-> req, p |-> ConnProc(name), out |-> NoOutcome,
                 life |-> life[name]]]

\* ToolManager.call entered on the caller's own thread.
CallBegin(t, name, req) ==
    /\ FreeTasks # {}
    /\ t = NthFree(1)
    /\ nops < MaxOps
    /\ nops' = nops + 1
    /\ CallStart(t, "call", name, req)
    /\ UNCHANGED <<conns, processes, proc, outbox, tinv, orch, life, agent, ais, aiop, reg, boot,
                   halt, rpc>>

\* ToolManager.call_async, line 144: submit self.call to the pool.
CallAsync(t, name, req) ==
    /\ FreeTasks # {}
    /\ t = NthFree(1)
    /\ nops < MaxOps
    /\ nops' = nops + 1
    /\ task' = [task EXCEPT ![t] = [FreeTask EXCEPT !.kind = "async", !.st = "queued",
                                                    !.tool = name, !.req = req]]
    /\ UNCHANGED <<conns, processes, proc, inbox, outbox, tinv, orch, life, agent, ais, aiop, reg, boot,
                   halt, rpc>>

\* A pool thread starts the submitted self.call.
PoolRunCall(t) ==
    /\ task[t].st = "queued"
    /\ task[t].kind = "async"
    /\ CallStart(t, "async", task[t].tool, task[t].req)
    /\ UNCHANGED <<conns, processes, proc, outbox, tinv, orch, life, nops, agent, ais, aiop, reg, boot,
                   halt, rpc>>

\* ToolManager.call step by step, for callers that run beside the thread that
\* stops tools.  Line 119: the membership test; a name that is not there is
\* refused.
CallCheck(t, name, req) ==
    /\ FreeTasks # {}
    /\ t = NthFree(1)
    /\ nops < MaxOps
    /\ nops' = nops + 1
    /\ task' = [task EXCEPT ![t] =
                  [kind |-> "call", st |-> IF Has(name) THEN "lookup" ELSE "done",
                   tool |-> name, req |-> req, p |-> 0,
                   out |-> IF Has(name) THEN NoOutcome
                           ELSE Outcome("NotFound", None, NoError),
                   life |-> life[name]]]
    /\ UNCHANGED <<conns, processes, proc, inbox, outbox, tinv, orch, life, agent, ais, aiop,
                   reg, boot, halt, rpc>>

\* Lines 122-123: self._conns[tool], which raises KeyError when the entry has
\* been deleted since the test, and conn.send.
CallLookup(t) ==
    /\ task[t].st = "lookup"
    /\ IF Has(task[t].tool)
       THEN /\ inbox' = [inbox EXCEPT ![ConnProc(task[t].tool)] = Append(@, task[t].req)]
            /\ task' = [task EXCEPT ![t].st = "recv", ![t].p = ConnProc(task[t].tool)]
       ELSE /\ task' = [task EXCEPT ![t].st = "done",
                                    ![t].out = Outcome("KeyError", None, NoError)]
            /\ UNCHANGED inbox
    /\ UNCHANGED <<conns, processes, proc, outbox, tinv, orch, life, nops, agent, ais, aiop,
                   reg, boot, halt, rpc>>

\* ToolManager.call, lines 126-135: what call does with the CallResult it read.
CallOutcome(t, result) ==
    IF result.error # NoError
    THEN Outcome("RemoteError", None,
                 <<task[t].tool, task[t].req.function, task[t].req.args>> \o result.error)
    ELSE Outcome("return", result.result, NoError)

\* ToolManager.call, line 124: conn.recv() returns the next CallResult on the
\* pipe, and blocks while there is none.
CallRecv(t) ==
    /\ task[t].st = "recv"
    /\ task[t].kind \in {"call", "async"}
    /\ outbox[task[t].p] # << >>
    /\ outbox' = [outbox EXCEPT ![task[t].p] = Tail(@)]
    /\ task' = [task EXCEPT ![t].st = "done",
                            ![t].out = CallOutcome(t, Head(outbox[task[t].p]))]
    /\ UNCHANGED <<conns, processes, proc, inbox, tinv, orch, life, nops, agent, ais, aiop, reg, boot,
                   halt, rpc>>

\* ------------------------------------------------------------------ tools()
IdleTinv == [st |-> "idle", order |-> << >>, names |-> << >>, ret |-> "none",
             infos |-> << >>]

\* ToolManager.tools, line 35: pool.map submits one get_tool_info per entry of
\* _conns, in the dict's order, each with the entry's name and connection.
ToolsEnter ==
    /\ tinv.st = "idle"
    /\ Cardinality(FreeTasks) >= Len(conns)
    /\ tinv' = [st |-> "wait", order |-> [i \in 1 .. Len(conns) |-> NthFree(i)],
                names |-> [i \in 1 .. Len(conns) |-> conns[i].name],
                ret |-> "none", infos |-> << >>]
    /\ task' = [t \in Tasks |->
                  IF \E i \in 1 .. Len(conns) : NthFree(i) = t
                  THEN LET i == CHOOSE j \in 1 .. Len(conns) : NthFree(j) = t
                       IN  [FreeTask EXCEPT !.kind = "info", !.st = "queued",
                                            !.tool = conns[i].name, !.p = conns[i].p,
                                            !.req = Call(SpecsName, None)]
                  ELSE task[t]]
    /\ UNCHANGED <<conns, processes, proc, inbox, outbox, orch, life, agent, ais, aiop, reg,
                   rpc>>

ToolsBeginOp ==
    /\ nops < MaxOps
    /\ nops' = nops + 1
    /\ ToolsEnter
    /\ UNCHANGED halt

ToolsBegin ==
    /\ ToolsBeginOp
    /\ UNCHANGED boot

\* get_tool_info, line 29: conn.send(Call(function="specs")).
InfoSend(t) ==
    /\ task[t].st = "queued"
    /\ task[t].kind = "info"
    /\ inbox' = [inbox EXCEPT ![task[t].p] = Append(@, task[t].req)]
    /\ task' = [task EXCEPT ![t].st = "recv"]
    /\ UNCHANGED <<conns, processes, proc, outbox, tinv, orch, life, nops, agent, ais, aiop, reg, boot,
                   halt, rpc>>

\* get_tool_info, line 32: ToolInfo(name=name, specs=result.result).  specs is
\* declared List[ToolSpec]: anything that is no list of specs (the None of an
\* error result) fails the model's validation.
ToolInfoOutcome(result) ==
    IF result.result = SPECS
    THEN Outcome("return", result.result, NoError)
    ELSE Outcome("ValidationError", None, NoError)

\* get_tool_info, lines 30-32: conn.recv() and the ToolInfo built from it.
InfoRecv(t) ==
    /\ task[t].st = "recv"
    /\ task[t].kind = "info"
    /\ outbox[task[t].p] # << >>
    /\ outbox' = [outbox EXCEPT ![task[t].p] = Tail(@)]
    /\ task' = [task EXCEPT ![t].st = "done",
                            ![t].out = ToolInfoOutcome(Head(outbox[task[t].p]))]
    /\ UNCHANGED <<conns, processes, proc, inbox, tinv, orch, life, nops, agent, ais, aiop, reg, boot,
                   halt, rpc>>

\* The entries of the map's result iterator that are not a ToolInfo yet.
NotInfo == {i \in 1 .. Len(tinv.order) :
              ~(task[tinv.order[i]].st = "done" /\ task[tinv.order[i]].out.kind = "return")}
FirstNotInfo == CHOOSE i \in NotInfo : \A j \in NotInfo : i <= j

\* ToolManager.tools, lines 34-36: the list is built from the results in order;
\* the first get_tool_info that raised makes tools() raise the same.
ToolsReturn ==
    /\ tinv.st = "wait"
    /\ IF NotInfo = {}
       THEN tinv' = [st |-> "idle", order |-> << >>, names |-> tinv.names,
                     ret |-> "return",
                     infos |-> [i \in 1 .. Len(tinv.order) |->
                                  [name |-> task[tinv.order[i]].tool,
                                   specs |-> task[tinv.order[i]].out.val]]]
       ELSE /\ task[tinv.order[FirstNotInfo]].st = "done"
            /\ tinv' = [st |-> "idle", order |-> << >>, names |-> tinv.names,
                        ret |-> task[tinv.order[FirstNotInfo]].out.kind,
                        infos |-> << >>]
    /\ UNCHANGED <<conns, processes, proc, inbox, outbox, task, orch, life, nops, agent, ais, aiop, reg, boot,
                   halt, rpc>>

IdleOrch == [pc |-> "idle", op |-> "none", name |-> None, p |-> 0,
             ret |-> "none", alive |-> FALSE, batch |-> << >>]

\* ------------------------------------------------------------------ model drivers
\* AiManager._ais: the drivers in insertion order, each made from its config.
AiNames == {"m1", "m2"}
Driver(name, type, key) == [name |-> name, type |-> type, key |-> key]
HasAi(name) == \E i \in 1 .. Len(ais) : ais[i].name = name

\* ------------------------------------------------------------------ agent loop
\* models.ToolCall and models.PromptResult (calls is null or a list).
ToolCall(tool, function, args) == [tool |-> tool, function |-> function, args |-> args]
PromptResult(text, callsNull, calls) ==
    [text |-> text, callsNull |-> callsNull, calls |-> calls]
ToolCalls == {ToolCall("a", "f", "x"), ToolCall("a", "boom", "x"), ToolCall("b", "f", "x")}

\* Lists of at most n tool calls.
RECURSIVE CallLists(_)
CallLists(n) ==
    IF n = 0 THEN {<< >>}
    ELSE CallLists(n - 1) \cup
         {Append(l, c) : l \in {k \in CallLists(n - 1) : Len(k) = n - 1}, c \in ToolCalls}

\* json.dumps of a list of dumped models: the text the model is sent.
JsonDumps(list) == <<"json", list>>

\* repr(e) of the exception ToolManager.call raised.
Repr(out) == <<out.kind>> \o out.err

\* main.py lines 236-245: the CallResult built from what ToolManager.call did.
MutAgentCallResult(out) ==
    IF out.kind = "return"
    THEN CallResult(out.val, NoError)
    ELSE CallResult(None, NoError)
AgentCallResult(out) ==
    IF out.kind = "return"
    THEN CallResult(out.val, NoError)
    ELSE CallResult(None, Repr(out))

\* main.py line 256: call_results.append(result.model_dump()).
MutAppendResult(call_results, result) ==
    <<result>> \o call_results
AppendResult(call_results, result) ==
    Append(call_results, result)

\* main.py lines 228-235 and 247-254: a hook that raises is caught and logged,
\* and the loop goes on.
MutAfterHook(raised) ==
    IF raised THEN "propagate" ELSE "ok"
AfterHook(raised) ==
    IF raised THEN "logged" ELSE "ok"

NoAgent ==
    [pc |-> "off", name |-> "m1", driver |-> "none",
     auto_call |-> TRUE, on_call |-> FALSE, on_result |-> FALSE,
     result |-> PromptResult(None, TRUE, << >>), calls |-> << >>, i |-> 0,
     call_results |-> << >>, cr |-> CallResult(None, NoError), t |-> 0,
     ret |-> Outcome("none", None, NoError),
     replies |-> << >>, prompts |-> << >>, sup |-> << >>, trace |-> << >>,
     logged |-> FALSE]

\* The tool calls the replies received so far have asked for.
RECURSIVE FlatCalls(_)
FlatCalls(rs) ==
    IF rs = << >> THEN << >>
    ELSE (IF Head(rs).callsNull THEN << >> ELSE Head(rs).calls) \o FlatCalls(Tail(rs))
RoundsOf(rs) == Cardinality({k \in 1 .. Len(rs) : ~rs[k].callsNull})

\* The replies a driver's prompt may return (every one of them passes
\* PromptResult validation, both fields being optional): a text, nothing at
\* all, a text together with an empty list of calls, or a list of tool calls.
Replies ==
    {PromptResult("answer", TRUE, << >>), PromptResult(None, TRUE, << >>)} \cup
    (IF RoundsOf(agent.replies) < MaxRounds
     THEN {PromptResult("both", FALSE, << >>)} \cup
          {PromptResult(None, FALSE, l) : l \in
              {k \in CallLists(MaxCalls) :
                  Len(FlatCalls(agent.replies)) + Len(k) <= MaxCalls}}
     ELSE {})

\* What AiManager.prompt(name, text) does, lines 46-50: ValueError for a name
\* that is not registered; otherwise the driver's prompt, which returns the
\* validated reply or raises (the vendor call failed, or model_validate_json
\* refused the output).
PromptOutcomes ==
    IF ~HasAi(agent.name)
    THEN {[kind |-> "NotFound", r |-> PromptResult(None, TRUE, << >>)]}
    ELSE {[kind |-> "reply", r |-> r] : r \in Replies} \cup
         {[kind |-> k, r |-> PromptResult(None, TRUE, << >>)] :
             k \in {"DriverError", "ValidationError"}}

\* Jaiger.prompt has no handler around self._ai_manager.prompt (lines 222 and
\* 258): what the driver raised ends the request.
MutDriverRaise(kind) ==
    Outcome("return", None, NoError)
DriverRaise(kind) ==
    Outcome(kind, None, NoError)

\* One self._ai_manager.prompt(name, text) of the loop and what it leaves.
AgentPrompt(text, o) ==
    IF o.kind = "reply"
    THEN [agent EXCEPT !.result = o.r, !.pc = "while", !.driver = "reply",
                       !.replies = Append(@, o.r),
                       !.prompts = Append(@, text)]
    ELSE [agent EXCEPT !.pc = "ret", !.driver = o.kind,
                       !.ret = DriverRaise(o.kind),
                       !.prompts = IF o.kind = "NotFound" THEN @ ELSE Append(@, text)]

\* main.py line 222: the first prompt.
PromptStart ==
    /\ agent.pc = "start"
    /\ \E o \in PromptOutcomes : agent' = AgentPrompt(<<"text", "hello">>, o)
    /\ UNCHANGED <<conns, processes, proc, inbox, outbox, task, tinv, orch, life, nops, ais, aiop, reg, boot,
                   halt, rpc>>

\* main.py line 225: while result.calls is not None.
MutLoopCondition(result) ==
    ~result.callsNull /\ result.calls # << >>
LoopCondition(result) ==
    ~result.callsNull

\* main.py lines 224-226 and 260: the loop condition and the return; lines
\* 262-267 without auto_call: the text, or the calls as json (iterating over
\* calls raises TypeError when calls is None).
AgentWhile ==
    /\ agent.pc = "while"
    /\ IF ~agent.auto_call
       THEN agent' = [agent EXCEPT !.pc = "ret", !.ret =
                        IF agent.result.text # None
                        THEN Outcome("return", agent.result.text, NoError)
                        ELSE IF agent.result.callsNull
                        THEN Outcome("TypeError", None, NoError)
                        ELSE Outcome("return", "calls", JsonDumps(agent.result.calls))]
       ELSE IF ~LoopCondition(agent.result)
       THEN agent' = [agent EXCEPT !.pc = "ret",
                         !.ret = Outcome("return", agent.result.text, NoError)]
       ELSE agent' = [agent EXCEPT !.pc = "for", !.calls = agent.result.calls,
                         !.i = 1, !.call_results = << >>, !.trace = << >>]
    /\ UNCHANGED <<conns, processes, proc, inbox, outbox, task, tinv, orch, life, nops, ais, aiop, reg, boot,
                   halt, rpc>>

\* What a hook invocation leaves of the request.
HookStep(present, raised, next) ==
    IF present /\ AfterHook(raised) = "propagate"
    THEN [agent EXCEPT !.pc = "ret", !.ret = Outcome("HookError", None, NoError)]
    ELSE [agent EXCEPT !.pc = next,
                       !.logged = @ \/ (present /\ raised)]

\* main.py lines 227-235: the next call of the list and the on_call hook.
AgentOnCall ==
    /\ agent.pc = "for"
    /\ agent.i <= Len(agent.calls)
    /\ \E raised \in BOOLEAN :
          /\ raised => agent.on_call
          /\ agent' = HookStep(agent.on_call, raised, "call")
    /\ UNCHANGED <<conns, processes, proc, inbox, outbox, task, tinv, orch, life, nops, ais, aiop, reg, boot,
                   halt, rpc>>

\* main.py lines 238-240: ToolManager.call is entered with the call.
AgentCall ==
    /\ agent.pc = "call"
    /\ FreeTasks # {}
    /\ LET c == agent.calls[agent.i]
       IN  /\ CallStart(NthFree(1), "call", c.tool, Call(c.function, c.args))
           /\ agent' = [agent EXCEPT !.pc = "recv", !.t = NthFree(1),
                                     !.trace = Append(@, <<"sent", c>>)]
    /\ UNCHANGED <<conns, processes, proc, outbox, tinv, orch, life, nops, ais, aiop, reg, boot,
                   halt, rpc>>

\* main.py lines 236-245: ToolManager.call has returned or raised.
AgentResult ==
    /\ agent.pc = "recv"
    /\ task[agent.t].st = "done"
    /\ agent' = [agent EXCEPT !.pc = "onresult",
                    !.cr = AgentCallResult(task[agent.t].out),
                    !.sup = Append(@, [call |-> agent.calls[agent.i],
                                       out |-> task[agent.t].out,
                                       cr |-> AgentCallResult(task[agent.t].out)]),
                    !.trace = Append(@, <<"done", agent.calls[agent.i],
                                          AgentCallResult(task[agent.t].out)>>)]
    /\ task' = [task EXCEPT ![agent.t] = FreeTask]
    /\ UNCHANGED <<conns, processes, proc, inbox, outbox, tinv, orch, life, nops, ais, aiop, reg, boot,
                   halt, rpc>>

\* main.py lines 247-256: the on_result hook, then the result is appended.
AgentOnResult ==
    /\ agent.pc = "onresult"
    /\ \E raised \in BOOLEAN :
          /\ raised => agent.on_result
          /\ agent' = [HookStep(agent.on_result, raised, "for") EXCEPT
                          !.i = @ + 1,
                          !.call_results = AppendResult(@, agent.cr)]
    /\ UNCHANGED <<conns, processes, proc, inbox, outbox, task, tinv, orch, life, nops, ais, aiop, reg, boot,
                   halt, rpc>>

\* main.py line 258: the results go to the model, whose next reply comes back.
AgentReprompt ==
    /\ agent.pc = "for"
    /\ agent.i > Len(agent.calls)
    /\ \E o \in PromptOutcomes : agent' = AgentPrompt(JsonDumps(agent.call_results), o)
    /\ UNCHANGED <<conns, processes, proc, inbox, outbox, task, tinv, orch, life, nops, ais, aiop, reg, boot,
                   halt, rpc>>

\* ------------------------------------------------------------------ batches
\* The batches start_many and stop_many are given.  A start_many argument is
\* <<name, fault of the tool's setup>>.
StartBatches ==
    {<< <<"a", "none">> >>, << <<"b", "none">> >>,
     << <<"a", "none">>, <<"b", "none">> >>, << <<"b", "setup">>, <<"a", "none">> >>}
StopBatches == {<<"a">>, <<"b">>, <<"a", "b">>, <<"b", "a">>}
\* The same, and a batch that names one tool twice.
TwiceBatches == StartBatches \cup {<< <<"a", "none">>, <<"a", "none">> >>}

UnusedProcs == {p \in Procs : proc[p].pc = "unused"}
NthUnused(i) == CHOOSE p \in UnusedProcs : Cardinality({q \in UnusedProcs : q < p}) = i - 1

\* ToolManager.start_many, lines 54-56: every name is checked before anything
\* is inserted.
MutStartManyCheck(args) ==
    IF Has(args[1][1]) THEN "AlreadyExists" ELSE "go"
StartManyCheck(args) ==
    IF \E i \in 1 .. Len(args) : Has(args[i][1]) THEN "AlreadyExists" ELSE "go"

\* ToolManager.stop_many, lines 87-89: every name is checked before any worker
\* is stopped.
StopManyCheck(names) ==
    IF \E i \in 1 .. Len(names) : ~Has(names[i]) THEN "NotFound" ELSE "go"

\* Lines 58-61: self._conns[name] = conn in a loop: a name keeps the place
\* of its first assignment and the value of its last one.
FirstOf(args) ==
    {i \in 1 .. Len(args) : \A j \in 1 .. Len(args) : j < i => args[j][1] # args[i][1]}
NthFirst(args, k) ==
    CHOOSE i \in FirstOf(args) : Cardinality({j \in FirstOf(args) : j < i}) = k - 1
LastOf(args, n) ==
    CHOOSE i \in 1 .. Len(args) :
        args[i][1] = n /\ \A j \in 1 .. Len(args) : j > i => args[j][1] # n

\* ToolManager.start_many, lines 50-66: the checks, then the entries are
\* inserted in order, then every process is started on the pool and waited for.
StartMany(args) ==
    /\ orch.pc = "idle"
    /\ nops < MaxOps
    /\ Cardinality(UnusedProcs) >= Len(args)
    /\ nops' = nops + 1
    /\ IF StartManyCheck(args) # "go"
       THEN /\ orch' = [pc |-> "idle", op |-> "start_many", name |-> None, p |-> 0,
                        ret |-> StartManyCheck(args), alive |-> FALSE, batch |-> args]
            /\ UNCHANGED <<conns, processes, proc, life>>
       ELSE /\ conns' = conns \o [k \in 1 .. Cardinality(FirstOf(args)) |->
                                    [name |-> args[NthFirst(args, k)][1],
                                     p |-> NthUnused(LastOf(args, args[NthFirst(args, k)][1]))]]
            /\ processes' = [n \in DOMAIN processes \cup {args[i][1] : i \in 1 .. Len(args)} |->
                               IF \E i \in 1 .. Len(args) : args[i][1] = n
                               THEN NthUnused(LastOf(args, n))
                               ELSE processes[n]]
            /\ proc' = [p \in Procs |->
                          IF \E i \in 1 .. Len(args) : NthUnused(i) = p
                          THEN [NewProc EXCEPT !.pc = "init",
                                  !.fault = args[CHOOSE i \in 1 .. Len(args) : NthUnused(i) = p][2]]
                          ELSE proc[p]]
            /\ life' = [n \in Names |->
                          IF \E i \in 1 .. Len(args) : args[i][1] = n
                          THEN [st |-> "started", p |-> processes'[n]]
                          ELSE life[n]]
            /\ orch' = [pc |-> "idle", op |-> "start_many", name |-> None, p |-> 0,
                        ret |-> "ok", alive |-> FALSE, batch |-> args]
    /\ UNCHANGED <<inbox, outbox, task, tinv, agent, ais, aiop, reg, boot, halt, rpc>>

\* ToolManager.stop_many, lines 86-104: the checks, then one stop_process per
\* name on the pool.  stop_process ignores its argument and looks up
\* self._processes[name], where name is the variable the checking loop left at
\* the last name of the batch: it is that one process that is stopped and
\* joined, as many times as there are names.
StopManyBegin(names) ==
    /\ orch.pc = "idle"
    /\ nops < MaxOps
    /\ nops' = nops + 1
    /\ IF StopManyCheck(names) # "go"
       THEN /\ orch' = [pc |-> "idle", op |-> "stop_many", name |-> None, p |-> 0,
                        ret |-> StopManyCheck(names), alive |-> FALSE, batch |-> names]
            /\ UNCHANGED proc
       ELSE /\ proc' = [proc EXCEPT ![processes[names[Len(names)]]].stop = TRUE]
            /\ orch' = [pc |-> "joinmany", op |-> "stop_many", name |-> names[Len(names)],
                        p |-> processes[names[Len(names)]], ret |-> "none",
                        alive |-> FALSE, batch |-> names]
    /\ UNCHANGED <<conns, processes, inbox, outbox, task, tinv, life, agent,
                   ais, aiop, reg, boot, halt, rpc>>

\* ToolManager.stop_many, lines 101-110: the joins are over (the worker has
\* exited or the 10 seconds have passed) and every name's entries are deleted.
StopManyEnd ==
    /\ orch.pc = "joinmany"
    /\ LET gone == {orch.batch[i] : i \in 1 .. Len(orch.batch)}
           keep == {i \in 1 .. Len(conns) : conns[i].name \notin gone}
       IN  /\ conns' = [k \in 1 .. Cardinality(keep) |->
                          conns[CHOOSE i \in keep : Cardinality({j \in keep : j < i}) = k - 1]]
           /\ processes' = [n \in DOMAIN processes \ gone |-> processes[n]]
           /\ life' = [n \in Names |->
                         IF n \in gone THEN [life[n] EXCEPT !.st = "stopped"] ELSE life[n]]
    /\ orch' = [orch EXCEPT !.pc = "idle", !.ret = "ok",
                            !.alive = (proc[orch.p].pc # "done")]
    /\ UNCHANGED <<proc, inbox, outbox, task, tinv, nops, agent, ais, aiop, reg, boot, halt, rpc>>

\* ------------------------------------------------------------------ model registry
\* configs.AiConfig as add_ai reads it; fails says whether constructing the
\* driver raises (the vendor client, or the preamble prompt of Model.__init__).
AiConfig(name, type, key, fails) ==
    [name |-> name, type |-> type, key |-> key, fails |-> fails]
AiConfigs ==
    {AiConfig(n, t, k, f) : n \in AiNames, t \in {"openai", "bogus"},
                            k \in {"k1", "k2"}, f \in BOOLEAN}
SupportedTypes == {"google", "anthropic", "openai", "ollama"}

NoAiop == [op |-> "none", name |-> None, config |-> AiConfig(None, None, None, FALSE),
           ret |-> "none", seq |-> 0]
IdleReg == [st |-> "idle", names |-> << >>, out |-> << >>, sent |-> << >>,
            tools |-> << >>, ret |-> "none", n |-> 0]

AiOf(name) == CHOOSE i \in 1 .. Len(ais) : ais[i].name = name

\* self._ais[config.name] = model: a dict assignment.
PutAi(driver) ==
    IF HasAi(driver.name)
    THEN [ais EXCEPT ![AiOf(driver.name)] = driver]
    ELSE Append(ais, driver)

\* AiManager.add_ai, lines 28-29: a registered name is refused.
MutAiNameCheck(name) ==
    "go"
AiNameCheck(name) ==
    IF HasAi(name) THEN "AlreadyExists" ELSE "go"

\* AiManager.add_ai, lines 28-40: the name check, the choice of the driver
\* class by type, and the construction of the driver, which may raise.
AddAiCheck(config) ==
    IF AiNameCheck(config.name) # "go" THEN AiNameCheck(config.name)
    ELSE IF config.type \notin SupportedTypes THEN "UnsupportedType"
    ELSE IF config.fails THEN "DriverError"
    ELSE "go"

\* AiManager.add_ai, lines 27-44.
AddAiOp(config) ==
    /\ nops < MaxOps
    /\ reg.st # "wait"
    /\ nops' = nops + 1
    /\ ais' = IF AddAiCheck(config) = "go"
              THEN PutAi(Driver(config.name, config.type, config.key))
              ELSE ais
    /\ aiop' = [op |-> "add_ai", name |-> config.name, config |-> config,
                ret |-> IF AddAiCheck(config) = "go" THEN "ok" ELSE AddAiCheck(config),
                seq |-> nops + 1]

AddAi(config) ==
    /\ AddAiOp(config)
    /\ UNCHANGED <<conns, processes, proc, inbox, outbox, task, tinv, orch, life, agent,
                   reg, boot, halt, rpc>>

\* AiManager.remove_ai, lines 52-58.
RemoveAiOp(name, seq) ==
    /\ reg.st # "wait"
    /\ ais' = IF HasAi(name) THEN RemoveAt(ais, AiOf(name)) ELSE ais
    /\ aiop' = [NoAiop EXCEPT !.op = "remove_ai", !.name = name, !.seq = seq,
                              !.ret = IF HasAi(name) THEN "ok" ELSE "NotFound"]
    /\ UNCHANGED <<conns, processes, proc, inbox, outbox, task, tinv, orch, life, agent,
                   reg, boot, rpc>>

RemoveAi(name) ==
    /\ nops < MaxOps
    /\ nops' = nops + 1
    /\ RemoveAiOp(name, nops + 1)
    /\ UNCHANGED halt

\* AiManager.prompt, lines 46-50: ValueError for an unknown name, otherwise
\* whatever the driver's prompt does.
AiPrompt(name) ==
    /\ nops < MaxOps
    /\ nops' = nops + 1
    /\ \E r \in (IF HasAi(name) THEN {"reply", "DriverError"} ELSE {"NotFound"}) :
          aiop' = [NoAiop EXCEPT !.op = "prompt", !.name = name, !.seq = nops + 1,
                                 !.ret = r]
    /\ UNCHANGED <<conns, processes, proc, inbox, outbox, task, tinv, orch, life, agent,
                   ais, reg, boot, halt, rpc>>

\* AiManager.register_tools, lines 61-64: one ai.register_tools(tools) is
\* submitted to the pool for every registered model.
RegBeginOp(tools) ==
    /\ reg.st # "wait"
    /\ reg' = [st |-> "wait", names |-> [i \in 1 .. Len(ais) |-> ais[i].name],
               out |-> [i \in 1 .. Len(ais) |-> "queued"],
               sent |-> [i \in 1 .. Len(ais) |-> 0],
               tools |-> tools, ret |-> "none", n |-> reg.n + 1]

\* The tool lists register_tools is called with.
ToolLists == {<< >>, <<[name |-> "a", specs |-> SPECS]>>}

RegBegin(tools) ==
    /\ nops < MaxOps
    /\ nops' = nops + 1
    /\ RegBeginOp(tools)
    /\ UNCHANGED <<conns, processes, proc, inbox, outbox, task, tinv, orch, life, agent,
                   ais, aiop, boot, halt, rpc>>

\* Model.register_tools, lines 37-39, on a pool thread: the tools are dumped
\* and sent to the model in one prompt, which returns or raises.
Announce(i) ==
    /\ reg.st = "wait"
    /\ i \in 1 .. Len(reg.out)
    /\ reg.out[i] = "queued"
    /\ \E outcome \in {"ok", "error"} :
          reg' = [reg EXCEPT !.out[i] = outcome, !.sent[i] = @ + 1]
    /\ UNCHANGED <<conns, processes, proc, inbox, outbox, task, tinv, orch, life, nops,
                   agent, ais, aiop, boot, halt, rpc>>

\* AiManager.register_tools, lines 66-77: has_error is set by any future that
\* raised; the return value is not has_error.
MutRegisterResult(out) ==
    IF out # << >> /\ out[Len(out)] = "error" THEN "False" ELSE "True"
RegisterResult(out) ==
    IF \E i \in 1 .. Len(out) : out[i] = "error" THEN "False" ELSE "True"

\* Lines 67-77: every future's result has been waited for.
RegReturnOp ==
    /\ reg.st = "wait"
    /\ \A i \in 1 .. Len(reg.out) : reg.out[i] # "queued"
    /\ reg' = [reg EXCEPT !.st = "done", !.ret = RegisterResult(reg.out)]

RegReturn ==
    /\ RegReturnOp
    /\ UNCHANGED <<conns, processes, proc, inbox, outbox, task, tinv, orch, life, nops,
                   agent, ais, aiop, boot, halt, rpc>>

\* ------------------------------------------------------------------ Jaiger.start
\* The configurations start() is run with: the tools as <<name, fault of the
\* tool's setup>> and the models as AiConfig, in the order of the file.
BootConfigs ==
    LET a == <<"a", "none">>
        b == <<"b", "none">>
        m1 == AiConfig("m1", "openai", "k1", FALSE)
        m2 == AiConfig("m2", "openai", "k2", FALSE)
    IN  {<< <<a>>, <<m1>> >>, << <<a>>, <<m1, m2>> >>, << <<a, b>>, <<m1>> >>,
         << <<a>>, <<m1, AiConfig("m2", "openai", "k2", TRUE)>> >>,
         << <<a>>, <<m1, AiConfig("m1", "openai", "k2", FALSE)>> >>,
         << << <<"a", "setup">>, b>>, <<m1>> >>, << <<a, a>>, <<m1>> >>}

IdleBoot == [pc |-> "off", i |-> 0, tools |-> << >>, ais |-> << >>, ret |-> "none"]

\* main.py lines 97-109: the loop over the configured tools is followed by
\* the loop over the configured models.
MutAfterTool(i) ==
    "ais"
AfterTool(i) ==
    IF i < Len(boot.tools) THEN "tools" ELSE "ais"

\* main.py lines 97-107: the next configured tool is started; what
\* ToolManager.start raises ends start().
BootStartTool ==
    /\ boot.pc = "tools"
    /\ StartOp(boot.tools[boot.i][1], boot.tools[boot.i][2])
    /\ boot' = IF StartCheck(boot.tools[boot.i][1]) # "go"
               THEN [boot EXCEPT !.pc = "done", !.ret = StartCheck(boot.tools[boot.i][1])]
               ELSE [boot EXCEPT !.pc = AfterTool(boot.i),
                                 !.i = IF AfterTool(boot.i) = "tools" THEN @ + 1 ELSE 1]

\* main.py lines 109-110: the next configured model is added; what add_ai
\* raises ends start().
BootAddAi ==
    /\ boot.pc = "ais"
    /\ AddAiOp(boot.ais[boot.i])
    /\ boot' = IF AddAiCheck(boot.ais[boot.i]) # "go"
               THEN [boot EXCEPT !.pc = "done", !.ret = AddAiCheck(boot.ais[boot.i])]
               ELSE IF boot.i < Len(boot.ais)
               THEN [boot EXCEPT !.i = @ + 1]
               ELSE [boot EXCEPT !.pc = "specs"]
    /\ UNCHANGED <<conns, processes, proc, inbox, outbox, task, tinv, orch, life, agent, reg,
                   halt, rpc>>

\* main.py line 112: self._tool_manager.tools() is entered.
BootTools ==
    /\ boot.pc = "specs"
    /\ ToolsBeginOp
    /\ boot' = [boot EXCEPT !.pc = "wait_specs"]

\* main.py line 112: tools() is over; register_tools is entered with the list
\* it returned, or what it raised ends start().
BootRegister ==
    /\ boot.pc = "wait_specs"
    /\ tinv.st = "idle"
    /\ IF tinv.ret = "return"
       THEN /\ RegBeginOp(tinv.infos)
            /\ boot' = [boot EXCEPT !.pc = "announce"]
       ELSE /\ boot' = [boot EXCEPT !.pc = "done", !.ret = tinv.ret]
            /\ UNCHANGED reg
    /\ UNCHANGED <<conns, processes, proc, inbox, outbox, task, tinv, orch, life, nops,
                   agent, ais, aiop, halt, rpc>>

\* main.py lines 112-114: register_tools is over, its value is dropped, and
\* start() returns.
BootReturn ==
    /\ boot.pc = "announce"
    /\ RegReturnOp
    /\ boot' = [boot EXCEPT !.pc = "done", !.ret = "ok"]
    /\ UNCHANGED <<conns, processes, proc, inbox, outbox, task, tinv, orch, life, nops,
                   agent, ais, aiop, halt, rpc>>

\* ------------------------------------------------------------------ Jaiger.stop
IdleHalt == [pc |-> "off", i |-> 0, names |-> << >>, models |-> << >>, ret |-> "none"]

\* main.py lines 124-127: the loop over the tools that tools() listed is
\* followed by the loop over the models that ais() lists.
MutStopLoop(i, names) ==
    "ais"
StopLoop(i, names) ==
    IF i <= Len(names) THEN "tools" ELSE "ais"

\* AiManager.ais, lines 24-25: the registered names, in the dict's order.
AisNames == [i \in 1 .. Len(ais) |-> ais[i].name]

\* main.py line 124: stop() is called once start() is over, and enters
\* self._tool_manager.tools().
HaltTools ==
    /\ boot.pc = "done"
    /\ halt.pc = "off"
    /\ ToolsEnter
    /\ halt' = [halt EXCEPT !.pc = "wait_specs"]
    /\ UNCHANGED <<nops, boot>>

\* main.py line 124: tools() is over: the loop starts on the list it
\* returned, or what it raised ends stop().
HaltListed ==
    /\ halt.pc = "wait_specs"
    /\ tinv.st = "idle"
    /\ halt' = IF tinv.ret = "return"
               THEN [halt EXCEPT !.pc = StopLoop(1, tinv.infos), !.i = 1,
                                 !.names = [i \in 1 .. Len(tinv.infos) |-> tinv.infos[i].name],
                                 !.models = AisNames]
               ELSE [halt EXCEPT !.pc = "done", !.ret = tinv.ret]
    /\ UNCHANGED <<conns, processes, proc, inbox, outbox, task, tinv, orch, life, nops,
                   agent, ais, aiop, reg, boot, rpc>>

\* main.py line 125: self._tool_manager.stop(tool.name) for the next tool
\* of the list: the check, process.stop() and the start of the join.
HaltStopTool ==
    /\ halt.pc = "tools"
    /\ StopBeginOp(halt.names[halt.i])
    /\ halt' = IF StopCheck(halt.names[halt.i]) # "go"
               THEN [halt EXCEPT !.pc = "done", !.ret = StopCheck(halt.names[halt.i])]
               ELSE [halt EXCEPT !.pc = "join"]
    /\ UNCHANGED nops

\* main.py lines 124-127: ToolManager.stop is over (the worker has exited or
\* the join deadline has passed); the next tool, or ais() once the list is
\* exhausted.
HaltJoined ==
    /\ halt.pc = "join"
    /\ StopEndOp
    /\ halt' = [halt EXCEPT !.pc = StopLoop(halt.i + 1, halt.names),
                            !.i = IF StopLoop(halt.i + 1, halt.names) = "tools"
                                  THEN halt.i + 1 ELSE 1,
                            !.models = AisNames]
    /\ UNCHANGED nops

\* main.py lines 127-128: self._ai_manager.remove_ai(ai) for the next name
\* of the list ais() returned.
HaltRemoveAi ==
    /\ halt.pc = "ais"
    /\ halt.i <= Len(halt.models)
    /\ RemoveAiOp(halt.models[halt.i], aiop.seq + 1)
    /\ halt' = [halt EXCEPT !.i = @ + 1]
    /\ UNCHANGED nops

\* main.py line 130: both loops are over and stop() returns.
HaltReturn ==
    /\ halt.pc = "ais"
    /\ halt.i > Len(halt.models)
    /\ halt' = [halt EXCEPT !.pc = "done", !.ret = "ok"]
    /\ UNCHANGED <<conns, processes, proc, inbox, outbox, task, tinv, orch, life, nops,
                   agent, ais, aiop, reg, boot, rpc>>

\* ------------------------------------------------------------------ RPC
\* The peers of the broker: two clients and the server, which main.py line 79
\* names "jaiger".  A peer is a DEALER socket connected to the broker's ROUTER
\* socket under its identity; a frame carries the values its sender handed to
\* send_multipart.  No socket is connected under the identity "zz".
Clients == {"A", "B"}
ServerId == "jaiger"
Peers == Clients \cup {ServerId}

\* The callback table of the server: f returns a value that depends on its
\* argument, boom raises; any other name is no key of the table.
RpcCallbacks == {"f", "boom"}

\* rpc.models.RpcResponse: error is a str, the empty string when there is none.
EmptyString == <<"">>
RpcResponse(result, error) == [result |-> result, error |-> error]

\* A payload that does not validate as an RpcRequest: function is no string.
Junk == Call(None, None)
RpcRequests == {Call("f", "x"), Call("f", "y"), Call("boom", "x"), Call("nosuch", "x")}

\* What a peer's DEALER socket sends: the ROUTER socket receives the parts with
\* the sender's identity in front.
Frame(src, dst, content) == [src |-> src, dst |-> dst, content |-> content]

\* Frames sent and neither dropped nor received by their addressee's task.
InFlight == Len(wire) + Len(sock["A"]) + Len(sock["B"]) + Len(sock[ServerId])

\* A DEALER peer with identity src sends [dst, content] (rpc_client.py line
\* 111 for a client, with content a Call; rpc_server.py line 92 for a server).
RawSend(src, dst, content) ==
    /\ InFlight < MaxSend
    /\ wire' = Append(wire, Frame(src, dst, content))
    /\ UNCHANGED <<conns, processes, proc, inbox, outbox, task, tinv, orch, life, nops,
                   agent, ais, aiop, reg, boot, halt, link, front, chat, brk, sock, srv, cli, http>>

\* ------------------------------------------------------------------ broker_task
IdleBrk == [pc |-> "run", stop |-> FALSE, err |-> "none"]

\* rpc_broker.py line 39: the parts the broker sends for the parts it received.
MutSwap(f) ==
    <<f.src, f.dst, f.content>>
Swap(f) ==
    <<f.dst, f.src, f.content>>

\* The ROUTER socket's send: the first part names the peer the rest goes to;
\* parts for an identity no peer is connected under are dropped.
RouterSend(parts) ==
    IF parts[1] \in Peers
    THEN [sock EXCEPT ![parts[1]] = Append(@, [src |-> parts[2], content |-> parts[3]])]
    ELSE sock

\* rpc_broker.py lines 34-43, one turn of the loop.  poll(1) returns the
\* sockets that are ready only: when no frame is there the dict is empty and
\* sockets[socket] raises KeyError, which nothing catches.
BrokerPoll ==
    /\ brk.pc = "run"
    /\ IF brk.stop
       THEN /\ brk' = [brk EXCEPT !.pc = "exited"]
            /\ UNCHANGED <<wire, sock>>
       ELSE IF wire = << >>
       THEN /\ brk' = [brk EXCEPT !.pc = "dead", !.err = "KeyError"]
            /\ UNCHANGED <<wire, sock>>
       ELSE /\ wire' = Tail(wire)
            /\ sock' = RouterSend(Swap(Head(wire)))
            /\ UNCHANGED brk
    /\ UNCHANGED <<conns, processes, proc, inbox, outbox, task, tinv, orch, life, nops,
                   agent, ais, aiop, reg, boot, halt, link, front, chat, srv, cli, http>>

\* RpcBroker.stop, rpc_broker.py lines 113-114: the stop event is set.
BrokerStop ==
    /\ ~brk.stop
    /\ brk' = [brk EXCEPT !.stop = TRUE]
    /\ UNCHANGED <<conns, processes, proc, inbox, outbox, task, tinv, orch, life, nops,
                   agent, ais, aiop, reg, boot, halt, link, front, chat, wire, sock, srv, cli, http>>

\* ------------------------------------------------------------------ server_task
\* request is the local of that name: unbound until a payload has validated.
IdleSrv == [pc |-> "poll", stop |-> FALSE, err |-> "none", bound |-> FALSE,
            request |-> Junk, futures |-> << >>, logged |-> FALSE]

\* RpcRequest.model_validate, rpc_server.py line 70.
Validates(content) == content.function # None

\* rpc_server.py lines 71-75: what the list receives is the future that
\* pool.submit returns, alone: the sender src is not kept with it.  by and
\* request record whose request the future runs.
Submit(src, request) ==
    [sender |-> None, by |-> src, request |-> request, st |-> "running",
     out |-> NoOutcome]

\* Lines 69-81 for the frame m: validate, look the callback up and submit;
\* except logs the request, a local that is unbound when no payload has
\* validated before.
Dispatch(m) ==
    IF ~Validates(m.content)
    THEN IF srv.bound
         THEN [srv EXCEPT !.logged = TRUE]
         ELSE [srv EXCEPT !.pc = "dead", !.err = "UnboundLocalError"]
    ELSE IF m.content.function \notin RpcCallbacks
    THEN [srv EXCEPT !.bound = TRUE, !.request = m.content, !.logged = TRUE]
    ELSE [srv EXCEPT !.bound = TRUE, !.request = m.content,
                     !.futures = Append(@, Submit(m.src, m.content))]

\* Lines 83 and 36-47: separate_completed_futures asks f[1].done() of every
\* entry; an entry is a Future, which has no item 1: TypeError, which nothing
\* catches.  Lines 84-92, the replies, are not reached with an entry in the
\* list, and have nothing to send with none.
Drain(s) ==
    IF s.pc = "dead" \/ s.futures = << >>
    THEN s
    ELSE [s EXCEPT !.pc = "dead", !.err = "TypeError"]

\* rpc_server.py lines 63-96, one turn of the loop: as in the broker, an idle
\* poll raises KeyError.
ServerPoll ==
    /\ srv.pc = "poll"
    /\ IF srv.stop
       THEN /\ srv' = [srv EXCEPT !.pc = "exited"]
            /\ UNCHANGED sock
       ELSE IF sock[ServerId] = << >>
       THEN /\ srv' = [srv EXCEPT !.pc = "dead", !.err = "KeyError"]
            /\ UNCHANGED sock
       ELSE /\ sock' = [sock EXCEPT ![ServerId] = Tail(@)]
            /\ srv' = Drain(Dispatch(Head(sock[ServerId])))
    /\ UNCHANGED <<conns, processes, proc, inbox, outbox, task, tinv, orch, life, nops,
                   agent, ais, aiop, reg, boot, halt, link, front, chat, brk, wire, cli, http>>

\* RpcServer.stop, rpc_server.py lines 170-171: the stop event is set.
ServerStop ==
    /\ ~srv.stop
    /\ srv' = [srv EXCEPT !.stop = TRUE]
    /\ UNCHANGED <<conns, processes, proc, inbox, outbox, task, tinv, orch, life, nops,
                   agent, ais, aiop, reg, boot, halt, link, front, chat, brk, wire, sock, cli, http>>

\* The callback a pool thread runs for the request (lines 72-74).
HandlerOutcome(request) ==
    IF request.function = "f"
    THEN Outcome("return", FValue(request.args), NoError)
    ELSE Outcome("RuntimeError", None, FormatTrace("RuntimeError", StrE))

\* A pool thread finishes the callback of future i.
HandlerDone(i) ==
    /\ i \in 1 .. Len(srv.futures)
    /\ srv.futures[i].st = "running"
    /\ srv' = [srv EXCEPT !.futures[i].st = "done",
                          !.futures[i].out = HandlerOutcome(srv.futures[i].request)]
    /\ UNCHANGED <<conns, processes, proc, inbox, outbox, task, tinv, orch, life, nops,
                   agent, ais, aiop, reg, boot, halt, link, front, chat, brk, wire, sock, cli, http>>

\* ------------------------------------------------------------------ RpcClient
\* cli[c] holds the executions of call / call_async on the client with
\* identity c, in the order they were entered: got is the request whose reply
\* the execution received (0: none), answered whether its own request has
\* been replied to.
NoCalls == [c \in Clients |-> << >>]
Exec(kind, server, req) ==
    [kind |-> kind, server |-> server, req |-> req, pc |-> "poll", out |-> NoOutcome,
     got |-> 0, answered |-> FALSE]

\* The executions entered so far.
Issued == Len(cli["A"]) + Len(cli["B"])

\* The thread that uses the client is inside call(), or inside the send of
\* call_async().
MainBusy(c) ==
    \E i \in 1 .. Len(cli[c]) :
        \/ cli[c][i].kind = "call" /\ cli[c][i].pc # "done"
        \/ cli[c][i].pc = "send"

\* A pool thread of the client is inside _wait_for_response.
PoolBusy(c) == \E i \in 1 .. Len(cli[c]) : cli[c][i].kind = "async" /\ cli[c][i].pc # "done"

\* What a client's socket is: none before connect(); the DEALER socket that
\* connect() creates, lines 58-61, which is connected to no endpoint and has
\* no identity (_endpoint is stored by __init__, line 35, and used nowhere);
\* or a DEALER socket connected to the broker under the client's identity,
\* as server_task connects its own, rpc_server.py lines 50-52.
NoSocket == [c \in Clients |-> "none"]
Connected == [c \in Clients |-> "connected"]

\* RpcClient.disconnect, lines 73-82: the pool is shut down, which waits for
\* its threads, and the context is destroyed with what its socket holds.
Disconnect(c) ==
    /\ ~MainBusy(c)
    /\ ~PoolBusy(c)
    /\ link[c] # "none"
    /\ link' = [link EXCEPT ![c] = "none"]
    /\ sock' = [sock EXCEPT ![c] = << >>]
    /\ UNCHANGED <<conns, processes, proc, inbox, outbox, task, tinv, orch, life, nops,
                   agent, ais, aiop, reg, boot, halt, brk, wire, srv, cli, http, front, chat>>

\* RpcClient.connect, lines 54-63: disconnect() first when there is a context,
\* then a new pool, context, DEALER socket and poller.  The socket is not
\* connected.
Connect(c) ==
    /\ ~MainBusy(c)
    /\ ~PoolBusy(c)
    /\ link' = [link EXCEPT ![c] = "socket"]
    /\ sock' = [sock EXCEPT ![c] = << >>]
    /\ UNCHANGED <<conns, processes, proc, inbox, outbox, task, tinv, orch, life, nops,
                   agent, ais, aiop, reg, boot, halt, brk, wire, srv, cli, http, front, chat>>

\* RpcClient.call, lines 110-113, and call_async, lines 137-142: the request
\* is sent, once, and _wait_for_response is entered, by the caller or by a
\* pool thread.  A DEALER socket that is connected to no peer accepts no
\* frame: send_multipart waits for a peer, and the socket never gets one.
CallSend(c, kind, server, req) ==
    /\ ~MainBusy(c)
    /\ Issued < MaxRpc
    /\ link[c] # "none"
    /\ IF link[c] = "connected"
       THEN /\ wire' = Append(wire, Frame(c, server, req))
            /\ cli' = [cli EXCEPT ![c] = Append(@, Exec(kind, server, req))]
       ELSE /\ cli' = [cli EXCEPT ![c] = Append(@, [Exec(kind, server, req) EXCEPT !.pc = "send"])]
            /\ UNCHANGED wire
    /\ UNCHANGED <<conns, processes, proc, inbox, outbox, task, tinv, orch, life, nops,
                   agent, ais, aiop, reg, boot, halt, link, front, chat, brk, sock, srv, http>>

\* _wait_for_response, lines 170-171 and 189-194: poll returns as soon as a
\* frame is there, or empty when the timeout has passed: TimeoutError.
WaitPoll(c, i) ==
    /\ i \in 1 .. Len(cli[c])
    /\ cli[c][i].pc = "poll"
    /\ cli' = IF sock[c] # << >>
              THEN [cli EXCEPT ![c][i].pc = "recv"]
              ELSE [cli EXCEPT ![c][i].pc = "done",
                               ![c][i].out = Outcome("TimeoutError", None, NoError)]
    /\ UNCHANGED <<conns, processes, proc, inbox, outbox, task, tinv, orch, life, nops,
                   agent, ais, aiop, reg, boot, halt, link, front, chat, brk, wire, sock, srv, http>>

\* Lines 176-187: the result when error is the empty string, RuntimeError
\* with the error otherwise.
MutWaitOutcome(response) ==
    Outcome("return", response.result, NoError)
WaitOutcome(response) ==
    IF response.error = EmptyString
    THEN Outcome("return", response.result, NoError)
    ELSE Outcome("RuntimeError", None, response.error)

\* Lines 172-187: recv_multipart takes the next frame of the socket, whatever
\* request it answers, and waits for one when there is none.
WaitRecv(c, i) ==
    /\ i \in 1 .. Len(cli[c])
    /\ cli[c][i].pc = "recv"
    /\ sock[c] # << >>
    /\ sock' = [sock EXCEPT ![c] = Tail(@)]
    /\ cli' = [cli EXCEPT ![c][i].pc = "done",
                          ![c][i].out = WaitOutcome(Head(sock[c]).content),
                          ![c][i].got = Head(sock[c]).of]
    /\ UNCHANGED <<conns, processes, proc, inbox, outbox, task, tinv, orch, life, nops,
                   agent, ais, aiop, reg, boot, halt, link, front, chat, brk, wire, srv, http>>

\* rpc_server.py lines 85-91: the response built from a finished callback:
\* the result and the empty string, or None and the trace.  A function that
\* is no callback has no response.
ServerAnswer(req) ==
    IF HandlerOutcome(req).kind = "return"
    THEN RpcResponse(HandlerOutcome(req).val, EmptyString)
    ELSE RpcResponse(None, HandlerOutcome(req).err)

\* The client's side of the fabric: the reply to request i of client c, sent
\* by the peer the request went to, is delivered to c's socket; of records
\* the request it answers.  A request may stay without reply.
ReplyArrives(c, i) ==
    /\ i \in 1 .. Len(cli[c])
    /\ ~cli[c][i].answered
    /\ cli[c][i].req.function \in RpcCallbacks
    /\ cli' = [cli EXCEPT ![c][i].answered = TRUE]
    /\ sock' = [sock EXCEPT ![c] = Append(@, [src |-> cli[c][i].server,
                                              content |-> ServerAnswer(cli[c][i].req),
                                              of |-> i])]
    /\ UNCHANGED <<conns, processes, proc, inbox, outbox, task, tinv, orch, life, nops,
                   agent, ais, aiop, reg, boot, halt, link, front, chat, brk, wire, srv, http>>

\* ------------------------------------------------------------------ HttpServer
\* What the endpoint does with a Call: the CallResult it returns, or the
\* exception that leaves it.
HttpReturn(result) == [kind |-> "return", val |-> result]
HttpRaise(type) == [kind |-> type, val |-> CallResult(None, NoError)]

\* http_server.py lines 121-131: the callback is looked up and run inside
\* try; except Exception turns a missing key and what the callback raises
\* into a CallResult with the trace.
MutHttpOutcome(call) ==
    IF call.function \notin RpcCallbacks
    THEN HttpRaise("KeyError")
    ELSE HttpReturn(CallResult(HandlerOutcome(call).val, HandlerOutcome(call).err))
HttpOutcome(call) ==
    IF call.function \notin RpcCallbacks
    THEN HttpReturn(CallResult(None, FormatTrace("KeyError", call.function)))
    ELSE IF HandlerOutcome(call).kind = "return"
    THEN HttpReturn(CallResult(HandlerOutcome(call).val, NoError))
    ELSE HttpReturn(CallResult(None, HandlerOutcome(call).err))

\* HttpServer.call, lines 108-131, for one POST /call.
HttpCall(call) ==
    /\ Len(http) < MaxHttp
    /\ http' = Append(http, [call |-> call, out |-> HttpOutcome(call)])
    /\ UNCHANGED <<conns, processes, proc, inbox, outbox, task, tinv, orch, life, nops,
                   agent, ais, aiop, reg, boot, halt, link, front, chat, brk, wire, sock, srv, cli>>

\* ------------------------------------------------------------------ Jaiger.__init__
\* main.py lines 74-84: the broker and the RPC server are made when the
\* configuration has rpc settings, the HTTP server when it has http settings.
\* A transport is "none" (not configured), "made" (constructed, its task is
\* None) or "running".
Front(r, h) == [rpc |-> r, http |-> h]
NoFront == Front("none", "none")
Fronts == {Front(r, h) : r \in {"none", "made"}, h \in {"none", "made"}}

\* The functions of the callback table that __init__ hands to the RPC server
\* and to the HTTP server, lines 63-72.
FrontCallbacks == {"call_tool", "call_tool_async", "ais", "config", "tools", "prompt"}

\* ------------------------------------------------------------------ driver
\* The requests that prompt one model at the same time, each a Jaiger.prompt
\* on its own thread (a callback of the RPC server's pool or of the HTTP
\* server).
Asks == {1, 2}

\* chat.hist is the driver's _messages_history; chat.run[r] is where request
\* r is: pc, the rounds of tool calls it has made, and what its prompt sends
\* ("text": the user's text, "results": the json of its call results).
IdleAsk == [pc |-> "off", rounds |-> 0, sends |-> "text", calls |-> FALSE]
NoChat == [hist |-> << >>, run |-> [r \in Asks |-> IdleAsk]]

Message(role, r, kind) == [role |-> role, r |-> r, kind |-> kind]

\* Jaiger.prompt is entered, main.py line 222: AiManager.prompt finds the
\* model and calls the driver's prompt; nothing is acquired on the way.
AskEnter(r) ==
    /\ chat.run[r].pc = "off"
    /\ chat' = [chat EXCEPT !.run[r].pc = "append"]
    /\ UNCHANGED <<conns, processes, proc, inbox, outbox, task, tinv, orch, life, nops,
                   agent, ais, aiop, reg, boot, halt, link, brk, wire, sock, srv, cli, http,
                   front>>

\* OllamaModel.prompt, line 20: the text is appended to the history.
AskAppend(r) ==
    /\ chat.run[r].pc = "append"
    /\ chat' = [chat EXCEPT !.run[r].pc = "chat",
                            !.hist = Append(@, Message("user", r, chat.run[r].sends))]
    /\ UNCHANGED <<conns, processes, proc, inbox, outbox, task, tinv, orch, life, nops,
                   agent, ais, aiop, reg, boot, halt, link, brk, wire, sock, srv, cli, http,
                   front>>

\* Lines 21-23: the vendor call, made with the history as it is then; the
\* model answers with a text or, while rounds are left, with tool calls.
AskChat(r) ==
    /\ chat.run[r].pc = "chat"
    /\ \E calls \in BOOLEAN :
          /\ calls => chat.run[r].rounds < MaxRounds
          /\ chat' = [chat EXCEPT !.run[r].pc = "store", !.run[r].calls = calls]
    /\ UNCHANGED <<conns, processes, proc, inbox, outbox, task, tinv, orch, life, nops,
                   agent, ais, aiop, reg, boot, halt, link, brk, wire, sock, srv, cli, http,
                   front>>

\* Lines 24-26: the reply is appended to the history and returned; main.py
\* lines 225 and 260: a reply without calls ends the request.
AskStore(r) ==
    /\ chat.run[r].pc = "store"
    /\ chat' = [chat EXCEPT
                  !.run[r].pc = IF chat.run[r].calls THEN "tools" ELSE "done",
                  !.hist = Append(@, Message("assistant", r,
                                     IF chat.run[r].calls THEN "calls" ELSE "text"))]
    /\ UNCHANGED <<conns, processes, proc, inbox, outbox, task, tinv, orch, life, nops,
                   agent, ais, aiop, reg, boot, halt, link, brk, wire, sock, srv, cli, http,
                   front>>

\* main.py lines 226-258: the calls of the reply are made and their results
\* go to the model in the next prompt.
AskResults(r) ==
    /\ chat.run[r].pc = "tools"
    /\ chat' = [chat EXCEPT !.run[r].pc = "append", !.run[r].sends = "results",
                            !.run[r].rounds = @ + 1]
    /\ UNCHANGED <<conns, processes, proc, inbox, outbox, task, tinv, orch, life, nops,
                   agent, ais, aiop, reg, boot, halt, link, brk, wire, sock, srv, cli, http,
                   front>>

\* No client has been connected.
RpcInit ==
    /\ front = NoFront
    /\ chat = NoChat
    /\ link = NoSocket
    /\ brk = IdleBrk
    /\ wire = << >>
    /\ sock = [p \in Peers |-> << >>]
    /\ srv = IdleSrv
    /\ cli = NoCalls
    /\ http = << >>

\* ------------------------------------------------------------------ Spec
\* ToolManager.__init__, lines 19-25: no tool, no process.
Init ==
    /\ conns = << >>
    /\ processes = << >>
    /\ proc = [p \in Procs |-> NewProc]
    /\ inbox = [p \in Procs |-> << >>]
    /\ outbox = [p \in Procs |-> << >>]
    /\ task = [t \in Tasks |-> FreeTask]
    /\ tinv = IdleTinv
    /\ orch = IdleOrch
    /\ life = [n \in Names |-> NoLife]
    /\ nops = 0
    /\ agent = NoAgent
    /\ ais = << >>
    /\ aiop = NoAiop
    /\ reg = IdleReg
    /\ boot = IdleBoot
    /\ halt = IdleHalt
    /\ RpcInit

Next ==
    \/ \E p \in Procs : WorkerSetup(p)
    \/ \E p \in Procs : WorkerCheck(p)
    \/ \E p \in Procs : WorkerPoll(p)
    \/ \E in \in StartInputs : Start(in[1], in[2])
    \/ \E name \in Names : StopBegin(name)
    \/ StopEnd
    \/ \E t \in Tasks, name \in CallNames, req \in Requests : CallBegin(t, name, req)
    \/ \E t \in Tasks, name \in CallNames, req \in Requests : CallAsync(t, name, req)
    \/ \E t \in Tasks : PoolRunCall(t)
    \/ \E t \in Tasks : CallRecv(t)
    \/ ToolsBegin
    \/ \E t \in Tasks : InfoSend(t)
    \/ \E t \in Tasks : InfoRecv(t)
    \/ ToolsReturn

Spec == Init /\ [][Next]_vars

\* Jaiger.prompt is entered on a runtime that start() has brought up with
\* tool a (tool b is not configured); one more client operation may arrive
\* while the request runs.
InitAgent ==
    /\ conns = <<[name |-> "a", p |-> 1]>>
    /\ processes = [n \in {"a"} |-> 1]
    /\ proc = [p \in Procs |-> IF p = 1 THEN [NewProc EXCEPT !.pc = "init"] ELSE NewProc]
    /\ inbox = [p \in Procs |-> << >>]
    /\ outbox = [p \in Procs |-> << >>]
    /\ task = [t \in Tasks |-> FreeTask]
    /\ tinv = IdleTinv
    /\ orch = IdleOrch
    /\ life = [n \in Names |-> IF n = "a" THEN [st |-> "started", p |-> 1] ELSE NoLife]
    /\ nops = MaxOps - 1
    /\ \E auto \in BOOLEAN, oc \in BOOLEAN, or \in BOOLEAN, name \in {"m1", "zz"} :
          agent = [NoAgent EXCEPT !.pc = "start", !.name = name, !.auto_call = auto,
                                  !.on_call = oc, !.on_result = or]
    /\ ais = <<Driver("m1", "openai", "k1")>>
    /\ aiop = NoAiop
    /\ reg = IdleReg
    /\ boot = IdleBoot
    /\ halt = IdleHalt
    /\ RpcInit

\* What another client thread calls while the request runs.
PeerRequests == {Call("boom", "x")}

NextAgent ==
    \/ \E p \in Procs : WorkerSetup(p)
    \/ \E p \in Procs : WorkerCheck(p)
    \/ \E p \in Procs : WorkerPoll(p)
    \/ \E t \in Tasks, name \in CallNames, req \in PeerRequests : CallBegin(t, name, req)
    \/ \E t \in Tasks : CallRecv(t)
    \/ PromptStart
    \/ AgentWhile
    \/ AgentOnCall
    \/ AgentCall
    \/ AgentResult
    \/ AgentOnResult
    \/ AgentReprompt

SpecAgent == InitAgent /\ [][NextAgent]_vars

\* Callers of call and tools() beside the thread that starts and stops tools,
\* with the steps of call taken one by one.
NextLookup ==
    \/ \E p \in Procs : WorkerSetup(p)
    \/ \E p \in Procs : WorkerCheck(p)
    \/ \E p \in Procs : WorkerPoll(p)
    \/ \E in \in StartInputs : Start(in[1], in[2])
    \/ \E name \in Names : StopBegin(name)
    \/ StopEnd
    \/ \E t \in Tasks, name \in CallNames, req \in Requests : CallCheck(t, name, req)
    \/ \E t \in Tasks : CallLookup(t)
    \/ \E t \in Tasks : CallRecv(t)
    \/ ToolsBegin
    \/ \E t \in Tasks : InfoSend(t)
    \/ \E t \in Tasks : InfoRecv(t)
    \/ ToolsReturn

SpecLookup == Init /\ [][NextLookup]_vars

\* The supervisor with the batch operations.
NextBatch ==
    \/ \E p \in Procs : WorkerSetup(p)
    \/ \E p \in Procs : WorkerCheck(p)
    \/ \E p \in Procs : WorkerPoll(p)
    \/ \E args \in StartBatches : StartMany(args)
    \/ \E names \in StopBatches : StopManyBegin(names)
    \/ StopManyEnd
    \/ \E t \in Tasks, name \in Names, req \in Requests : CallBegin(t, name, req)
    \/ \E t \in Tasks : CallRecv(t)

SpecBatch == Init /\ [][NextBatch]_vars

\* The supervisor with start, start_many, stop and stop_many.
NextTwice ==
    \/ \E p \in Procs : WorkerSetup(p)
    \/ \E p \in Procs : WorkerCheck(p)
    \/ \E p \in Procs : WorkerPoll(p)
    \/ \E in \in StartInputs : Start(in[1], in[2])
    \/ \E name \in Names : StopBegin(name)
    \/ StopEnd
    \/ \E args \in TwiceBatches : StartMany(args)
    \/ \E names \in StopBatches : StopManyBegin(names)
    \/ StopManyEnd

SpecTwice == Init /\ [][NextTwice]_vars

\* One worker and its callers: the requests include a method the tool does
\* not have.
WorkerRequests == Requests \cup {Call("nosuch", "x")}

InitWorker ==
    /\ conns = <<[name |-> "a", p |-> 1]>>
    /\ processes = [n \in {"a"} |-> 1]
    /\ \E fault \in {"none", "setup"} :
          proc = [p \in Procs |-> IF p = 1
                                  THEN [NewProc EXCEPT !.pc = "init", !.fault = fault]
                                  ELSE NewProc]
    /\ inbox = [p \in Procs |-> << >>]
    /\ outbox = [p \in Procs |-> << >>]
    /\ task = [t \in Tasks |-> FreeTask]
    /\ tinv = IdleTinv
    /\ orch = IdleOrch
    /\ life = [n \in Names |-> IF n = "a" THEN [st |-> "started", p |-> 1] ELSE NoLife]
    /\ nops = 0
    /\ agent = NoAgent
    /\ ais = << >>
    /\ aiop = NoAiop
    /\ reg = IdleReg
    /\ boot = IdleBoot
    /\ halt = IdleHalt
    /\ RpcInit

\* One worker whose tool is constructed and set up, whose setup() raises, or
\* whose constructor raises.
InitShutdown ==
    /\ conns = <<[name |-> "a", p |-> 1]>>
    /\ processes = [n \in {"a"} |-> 1]
    /\ \E fault \in {"none", "setup", "ctor"} :
          proc = [p \in Procs |-> IF p = 1
                                  THEN [NewProc EXCEPT !.pc = "init", !.fault = fault]
                                  ELSE NewProc]
    /\ inbox = [p \in Procs |-> << >>]
    /\ outbox = [p \in Procs |-> << >>]
    /\ task = [t \in Tasks |-> FreeTask]
    /\ tinv = IdleTinv
    /\ orch = IdleOrch
    /\ life = [n \in Names |-> IF n = "a" THEN [st |-> "started", p |-> 1] ELSE NoLife]
    /\ nops = 0
    /\ agent = NoAgent
    /\ ais = << >>
    /\ aiop = NoAiop
    /\ reg = IdleReg
    /\ boot = IdleBoot
    /\ halt = IdleHalt
    /\ RpcInit

NextWorker ==
    \/ \E p \in Procs : WorkerSetup(p)
    \/ \E p \in Procs : WorkerCheck(p)
    \/ \E p \in Procs : WorkerPoll(p)
    \/ \E t \in Tasks, req \in WorkerRequests : CallBegin(t, "a", req)
    \/ \E t \in Tasks : CallRecv(t)
    \/ StopBegin("a")
    \/ StopEnd

SpecWorker == InitWorker /\ [][NextWorker]_vars

\* One worker and callers that name the tool's own method and the methods of
\* the base class.
BaseRequests ==
    {Call("f", "x"), Call("teardown", "x")} \cup {Call(m, NoArgs) : m \in BaseMethods}

NextBase ==
    \/ \E p \in Procs : WorkerSetup(p)
    \/ \E p \in Procs : WorkerCheck(p)
    \/ \E p \in Procs : WorkerPoll(p)
    \/ \E t \in Tasks, req \in BaseRequests : CallBegin(t, "a", req)
    \/ \E t \in Tasks : CallRecv(t)
    \/ StopBegin("a")
    \/ StopEnd

SpecBase == InitWorker /\ [][NextBase]_vars

\* The worker is a process of its own: the system runs it whenever it can
\* take a step.
WorkerRuns ==
    \A p \in Procs :
        WF_vars(WorkerSetup(p)) /\ WF_vars(WorkerCheck(p)) /\ WF_vars(WorkerPoll(p))

SpecShutdown == InitShutdown /\ [][NextWorker]_vars /\ WorkerRuns

\* The model registry on its own.
NextAi ==
    \/ \E config \in AiConfigs : AddAi(config)
    \/ \E name \in AiNames : RemoveAi(name)
    \/ \E name \in AiNames : AiPrompt(name)
    \/ \E tools \in ToolLists : RegBegin(tools)
    \/ \E i \in 1 .. Cardinality(AiNames) : Announce(i)
    \/ RegReturn

SpecAi == Init /\ [][NextAi]_vars

\* Jaiger.start on a fresh runtime.
InitStart ==
    /\ conns = << >>
    /\ processes = << >>
    /\ proc = [p \in Procs |-> NewProc]
    /\ inbox = [p \in Procs |-> << >>]
    /\ outbox = [p \in Procs |-> << >>]
    /\ task = [t \in Tasks |-> FreeTask]
    /\ tinv = IdleTinv
    /\ orch = IdleOrch
    /\ life = [n \in Names |-> NoLife]
    /\ nops = 0
    /\ agent = NoAgent
    /\ ais = << >>
    /\ aiop = NoAiop
    /\ reg = IdleReg
    /\ \E config \in BootConfigs :
          boot = [IdleBoot EXCEPT !.pc = "tools", !.i = 1,
                                  !.tools = config[1], !.ais = config[2]]
    /\ halt = IdleHalt
    /\ RpcInit

NextStart ==
    \/ \E p \in Procs : WorkerSetup(p)
    \/ \E p \in Procs : WorkerCheck(p)
    \/ \E p \in Procs : WorkerPoll(p)
    \/ BootStartTool
    \/ BootAddAi
    \/ BootTools
    \/ \E t \in Tasks : InfoSend(t)
    \/ \E t \in Tasks : InfoRecv(t)
    \/ ToolsReturn
    \/ BootRegister
    \/ \E i \in 1 .. Cardinality(AiNames) : Announce(i)
    \/ BootReturn

SpecStart == InitStart /\ [][NextStart]_vars

\* Jaiger.start followed by Jaiger.stop.
NextStop ==
    \/ \E p \in Procs : WorkerSetup(p)
    \/ \E p \in Procs : WorkerCheck(p)
    \/ \E p \in Procs : WorkerPoll(p)
    \/ BootStartTool
    \/ BootAddAi
    \/ BootTools
    \/ \E t \in Tasks : InfoSend(t)
    \/ \E t \in Tasks : InfoRecv(t)
    \/ ToolsReturn
    \/ BootRegister
    \/ \E i \in 1 .. Cardinality(AiNames) : Announce(i)
    \/ BootReturn
    \/ HaltTools
    \/ HaltListed
    \/ HaltStopTool
    \/ HaltJoined
    \/ HaltRemoveAi
    \/ HaltReturn

\* The broker, the server and clients whose sockets are connected to the
\* broker under their identities.
InitConnected ==
    /\ conns = << >>
    /\ processes = << >>
    /\ proc = [p \in Procs |-> NewProc]
    /\ inbox = [p \in Procs |-> << >>]
    /\ outbox = [p \in Procs |-> << >>]
    /\ task = [t \in Tasks |-> FreeTask]
    /\ tinv = IdleTinv
    /\ orch = IdleOrch
    /\ life = [n \in Names |-> NoLife]
    /\ nops = 0
    /\ agent = NoAgent
    /\ ais = << >>
    /\ aiop = NoAiop
    /\ reg = IdleReg
    /\ boot = IdleBoot
    /\ halt = IdleHalt
    /\ front = NoFront
    /\ chat = NoChat
    /\ link = Connected
    /\ brk = IdleBrk
    /\ wire = << >>
    /\ sock = [p \in Peers |-> << >>]
    /\ srv = IdleSrv
    /\ cli = NoCalls
    /\ http = << >>

SpecStop == InitStart /\ [][NextStop]_vars

\* Jaiger made from a configuration that has rpc settings, http settings or
\* both, then start() and stop().
InitFront ==
    /\ conns = << >>
    /\ processes = << >>
    /\ proc = [p \in Procs |-> NewProc]
    /\ inbox = [p \in Procs |-> << >>]
    /\ outbox = [p \in Procs |-> << >>]
    /\ task = [t \in Tasks |-> FreeTask]
    /\ tinv = IdleTinv
    /\ orch = IdleOrch
    /\ life = [n \in Names |-> NoLife]
    /\ nops = 0
    /\ agent = NoAgent
    /\ ais = << >>
    /\ aiop = NoAiop
    /\ reg = IdleReg
    /\ \E config \in BootConfigs :
          boot = [IdleBoot EXCEPT !.pc = "tools", !.i = 1,
                                  !.tools = config[1], !.ais = config[2]]
    /\ halt = IdleHalt
    /\ front \in Fronts \ {NoFront}
    /\ chat = NoChat
    /\ link = NoSocket
    /\ brk = IdleBrk
    /\ wire = << >>
    /\ sock = [p \in Peers |-> << >>]
    /\ srv = IdleSrv
    /\ cli = NoCalls
    /\ http = << >>

SpecFront == InitFront /\ [][NextStop]_vars

\* The broker and its peers: what a peer sends to a peer is a request or a
\* response.
Payloads == {Call("f", "x"), RpcResponse("fx", EmptyString)}

NextBroker ==
    \/ \E src \in Peers, dst \in Peers \cup {"zz"}, content \in Payloads :
          RawSend(src, dst, content)
    \/ BrokerPoll
    \/ BrokerStop

SpecBroker == Init /\ [][NextBroker]_vars

\* The fabric as a whole: two clients calling the server through the broker,
\* and a peer that sends a payload that is no request.
NextRpc ==
    \/ \E c \in Clients, req \in RpcRequests : CallSend(c, "call", ServerId, req)
    \/ \E c \in Clients : RawSend(c, ServerId, Junk)
    \/ \E c \in Clients, i \in 1 .. MaxRpc : WaitPoll(c, i)
    \/ BrokerPoll
    \/ BrokerStop
    \/ ServerPoll
    \/ ServerStop
    \/ \E i \in 1 .. MaxRpc : HandlerDone(i)

SpecRpc == InitConnected /\ [][NextRpc]_vars

\* One client used by one thread, and the replies that reach it.
NextCall ==
    \/ \E req \in RpcRequests : CallSend("A", "call", ServerId, req)
    \/ \E i \in 1 .. MaxRpc : WaitPoll("A", i)
    \/ \E i \in 1 .. MaxRpc : WaitRecv("A", i)
    \/ \E i \in 1 .. MaxRpc : ReplyArrives("A", i)

SpecCall == InitConnected /\ [][NextCall]_vars

\* One client on which call and call_async are both used.
NextAsync ==
    \/ \E kind \in {"call", "async"}, req \in RpcRequests :
          CallSend("A", kind, ServerId, req)
    \/ \E i \in 1 .. MaxRpc : WaitPoll("A", i)
    \/ \E i \in 1 .. MaxRpc : WaitRecv("A", i)
    \/ \E i \in 1 .. MaxRpc : ReplyArrives("A", i)

SpecAsync == InitConnected /\ [][NextAsync]_vars

\* Clients as connect() makes them, beside a running broker.
NextClient ==
    \/ \E c \in Clients : Connect(c)
    \/ \E c \in Clients : Disconnect(c)
    \/ \E c \in Clients, kind \in {"call", "async"}, req \in RpcRequests :
          CallSend(c, kind, ServerId, req)
    \/ BrokerPoll
    \/ BrokerStop

SpecClient == Init /\ [][NextClient]_vars

\* Two requests prompting one model.
NextChat ==
    \/ \E r \in Asks : AskEnter(r)
    \/ \E r \in Asks : AskAppend(r)
    \/ \E r \in Asks : AskChat(r)
    \/ \E r \in Asks : AskStore(r)
    \/ \E r \in Asks : AskResults(r)

SpecChat == Init /\ [][NextChat]_vars

\* The HTTP facade serving calls.
NextHttp ==
    \/ \E call \in RpcRequests : HttpCall(call)

SpecHttp == Init /\ [][NextHttp]_vars

\* ------------------------------------------------------------------ claims
\* Calls sent on process p's pipe whose CallResult has not been received.
Outstanding(p) == {t \in Tasks : task[t].st = "recv" /\ task[t].p = p}

\* What ToolManager.call does when the worker's reply to the task's own Call
\* is the CallResult it reads.
OwnOutcome(t) == CallOutcome(t, ServeRequest(task[t].req))

\* The task's call went to a worker whose tool was constructed and set up.
ServedCall(t, kinds) ==
    /\ task[t].st = "done"
    /\ task[t].kind \in kinds
    /\ task[t].p # 0
    /\ proc[task[t].p].fault = "none"

\* C3 (as claimed): single-in-flight per worker: at every instant at most one
\* Call has been sent on a tool's pipe without its CallResult having been
\* received.  call, call_async and get_tool_info take no lock around
\* send/recv, so two threads can both have sent.
C3_SingleInFlight ==
    \A p \in Procs : Cardinality(Outstanding(p)) <= 1

\* C4 (as claimed): when the tool's method returns v, ToolManager.call returns v.
C4_RoundTripSuccess ==
    \A t \in Tasks :
        (ServedCall(t, {"call"}) /\ task[t].req.function = "f")
            => task[t].out = Outcome("return", FValue(task[t].req.args), NoError)

\* C5 (as claimed): when the tool's method raises E, ToolManager.call raises
\* RemoteError carrying the worker's trace with str(E); it returns no value.
C5_RoundTripFailure ==
    \A t \in Tasks :
        (ServedCall(t, {"call"}) /\ task[t].req.function = "boom")
            => /\ task[t].out.kind = "RemoteError"
               /\ \E i \in 1 .. Len(task[t].out.err) : task[t].out.err[i] = StrE

\* C6 (as claimed): a call_async future resolves to the CallResult produced
\* for its own Call, never to the result of another caller's Call.
C6_AsyncOwnResult ==
    \A t \in Tasks :
        ServedCall(t, {"async"}) => task[t].out = OwnOutcome(t)

\* An orchestrator operation has been entered in this step.
OrchStep(op) == orch.pc = "idle" /\ orch' # orch /\ orch'.op = op

\* C7: after stop(x) has succeeded, a second stop(x) fails with NotFound and
\* leaves the supervisor's maps, the workers and the pipes as they were.
C7_IdempotentStop ==
    [][(OrchStep("stop") /\ life[orch'.name].st = "stopped")
          => /\ orch'.pc = "idle"
             /\ orch'.ret = "NotFound"
             /\ UNCHANGED <<conns, processes, proc, inbox, outbox, life>>]_vars

\* C7 witness: a stop of a stopped name has returned NotFound.
C7_Witness ==
    /\ orch.op = "stop"
    /\ orch.ret = "NotFound"
    /\ life[orch.name].st = "stopped"

\* No two entries of _conns share a name, and _processes has the same names.
UniqueNames ==
    /\ \A i, j \in 1 .. Len(conns) : conns[i].name = conns[j].name => i = j
    /\ DOMAIN processes = ConnNames

\* C8: start(name, ...) on a registered name fails with AlreadyExists, changes
\* no entry and starts no worker; on a free name it inserts the entry and
\* starts the worker it was given.  Names stay unique.
C8_StartUnique ==
    [][/\ UniqueNames'
       /\ OrchStep("start") =>
            IF Has(orch'.name)
            THEN /\ orch'.ret = "AlreadyExists"
                 /\ UNCHANGED <<conns, processes, proc, inbox, outbox>>
            ELSE /\ orch'.ret = "ok"
                 /\ conns' = Append(conns, [name |-> orch'.name, p |-> orch'.p])
                 /\ processes'[orch'.name] = orch'.p
                 /\ proc[orch'.p].pc = "unused"
                 /\ proc'[orch'.p].pc = "init"
                 /\ \A q \in Procs \ {orch'.p} : proc'[q] = proc[q]]_vars

\* C8 witness: a start on a registered name was refused.
C8_Witness ==
    /\ orch.op = "start"
    /\ orch.ret = "AlreadyExists"
    /\ Has(orch.name)

\* C9: once stop(name) has returned the name is not registered, whether or not
\* the worker exited within the join deadline; a call entered then raises
\* NotFound; a start of the name is refused only while the name is started;
\* and a call entered after a start goes to the worker of the latest start.
C9_StopThenRestart ==
    /\ \A n \in Names :
          life[n].st = "stopped" => ~Has(n) /\ n \notin DOMAIN processes
    /\ \A t \in Tasks :
          (task[t].kind \in {"call", "async"} /\ task[t].st \in {"recv", "done"})
             => /\ task[t].life.st # "started"
                    => task[t].st = "done" /\ task[t].out.kind = "NotFound"
                /\ task[t].life.st = "started"
                    => task[t].p = task[t].life.p
    /\ (orch.op = "start" /\ orch.ret = "AlreadyExists")
          => life[orch.name].st = "started"

\* C9 witness: stop returned while the old worker was still alive, the name
\* was started again, and a call was answered by the new worker.
C9_Witness ==
    \E t \in Tasks :
        /\ task[t].st = "done"
        /\ task[t].out.kind = "return"
        /\ task[t].life = [st |-> "started", p |-> 2]
        /\ proc[1].pc # "done"
        /\ proc[1].stop

\* C10 (as claimed): tools() returns one ToolInfo per registered tool, a tool
\* whose query failed being reported with specs = [].
C10_ToolsIsolation ==
    (tinv.st = "idle" /\ tinv.ret # "none")
        => /\ tinv.ret = "return"
           /\ Len(tinv.infos) = Len(tinv.names)
           /\ \A i \in 1 .. Len(tinv.names) : tinv.infos[i].name = tinv.names[i]

\* The CallResult the k-th completed supervisor call of the current round gave.
RoundResult(j) == agent.trace[2 * j][3]

\* C1: with auto_call, the supervisor is called with c1, then c2, ... of the
\* reply's calls, each call being over before the next is entered; the
\* results are collected in that order, and the next prompt to the model
\* carries exactly one CallResult per call, the i-th being what the
\* supervisor's call for ci gave.
C1_CallOrder ==
    agent.auto_call =>
      /\ \A k \in 1 .. Len(agent.trace) :
            LET j == (k + 1) \div 2
            IN  /\ j <= Len(agent.calls)
                /\ IF k % 2 = 1
                   THEN agent.trace[k] = <<"sent", agent.calls[j]>>
                   ELSE /\ agent.trace[k][1] = "done"
                        /\ agent.trace[k][2] = agent.calls[j]
      /\ agent.pc = "recv" =>
            /\ Len(agent.trace) = 2 * agent.i - 1
            /\ task[agent.t].tool = agent.calls[agent.i].tool
            /\ task[agent.t].req = Call(agent.calls[agent.i].function,
                                        agent.calls[agent.i].args)
      /\ 2 * Len(agent.call_results) <= Len(agent.trace)
      /\ \A j \in 1 .. Len(agent.call_results) : agent.call_results[j] = RoundResult(j)
      /\ (agent.pc = "while" /\ Len(agent.prompts) > 1) =>
            /\ Len(agent.trace) = 2 * Len(agent.calls)
            /\ agent.prompts[Len(agent.prompts)] =
                  JsonDumps([j \in 1 .. Len(agent.calls) |-> RoundResult(j)])

\* C1 witness: a reply asked for two different calls, their results differ,
\* and the results have been sent to the model.
C1_Witness ==
    /\ agent.auto_call
    /\ agent.pc = "while"
    /\ Len(agent.prompts) > 1
    /\ Len(agent.calls) = 2
    /\ agent.calls[1] # agent.calls[2]
    /\ RoundResult(1) # RoundResult(2)

\* The result prompts of a run without hooks that gets the replies rs and the
\* call results crs: one prompt per reply with calls, carrying that reply's
\* results in order.
RECURSIVE RefPrompts(_, _)
RefPrompts(rs, crs) ==
    IF rs = << >> \/ Head(rs).callsNull THEN << >>
    ELSE LET n == Len(Head(rs).calls)
         IN  <<JsonDumps(SubSeq(crs, 1, n))>> \o
             RefPrompts(Tail(rs), SubSeq(crs, n + 1, Len(crs)))

\* C2: hook isolation: whatever on_call and on_result do on any invocation,
\* no hook exception ends the request, and a request that has returned has
\* made the tool calls the replies asked for, has sent the model the prompts
\* of a run without hooks, and returns the text of the last reply.
C2_HookIsolation ==
    /\ agent.ret.kind # "HookError"
    /\ (agent.pc = "ret" /\ agent.auto_call /\ agent.driver = "reply") =>
          /\ agent.ret = Outcome("return", agent.replies[Len(agent.replies)].text, NoError)
          /\ agent.replies[Len(agent.replies)].callsNull
          /\ [k \in 1 .. Len(agent.sup) |-> agent.sup[k].call] = FlatCalls(agent.replies)
          /\ agent.prompts = <<agent.prompts[1]>> \o
                RefPrompts(agent.replies, [k \in 1 .. Len(agent.sup) |-> agent.sup[k].cr])

\* C2 witness: a request in which a hook raised has returned its answer after
\* tool calls.
C2_Witness ==
    /\ agent.pc = "ret"
    /\ agent.auto_call
    /\ agent.logged
    /\ Len(agent.sup) = 2
    /\ agent.ret.kind = "return"

\* C11: start_many with a batch in which some name is registered, and
\* stop_many with a batch in which some name is not registered, fail before
\* anything is done: no entry is inserted or removed, no worker is started
\* or told to stop.
C11_BatchAllOrNothing ==
    [][/\ (OrchStep("start_many") /\ \E i \in 1 .. Len(orch'.batch) : Has(orch'.batch[i][1]))
            => /\ orch'.pc = "idle"
               /\ orch'.ret = "AlreadyExists"
               /\ UNCHANGED <<conns, processes, proc, inbox, outbox, life>>
       /\ (OrchStep("stop_many") /\ \E i \in 1 .. Len(orch'.batch) : ~Has(orch'.batch[i]))
            => /\ orch'.pc = "idle"
               /\ orch'.ret = "NotFound"
               /\ UNCHANGED <<conns, processes, proc, inbox, outbox, life>>]_vars

\* C11 witness: a start_many whose first name was free and whose second name
\* was registered has been refused, with the other tool still running.
C11_Witness ==
    /\ orch.op = "start_many"
    /\ orch.ret = "AlreadyExists"
    /\ Len(orch.batch) = 2
    /\ ~Has(orch.batch[1][1])
    /\ Has(orch.batch[2][1])
    /\ proc[ConnProc(orch.batch[2][1])].pc = "loop"

\* C11 (stop_many side): a stop_many whose first name was registered and whose
\* second name was not has been refused, and the registered tool still serves.
C11_WitnessStop ==
    /\ orch.op = "stop_many"
    /\ orch.ret = "NotFound"
    /\ Len(orch.batch) = 2
    /\ Has(orch.batch[1])
    /\ ~Has(orch.batch[2])
    /\ ~proc[ConnProc(orch.batch[1])].stop

\* The requests the modelled tool serves without raising.
Succeeds(request) == request.function \in {"f", SpecsName}

\* C12: whatever a Call makes the tool do, the worker answers it with one
\* CallResult and goes back to the top of its loop; when serving raised
\* (the method raised, or the tool has no such method) the CallResult has
\* result null and the failure trace as error; the worker leaves the loop only
\* once the stop signal is set.
C12_WorkerServesOn ==
    [][\A p \in Procs :
         /\ (proc[p].pc = "poll" /\ proc'[p].pc # "poll") =>
               /\ proc'[p].pc = "loop"
               /\ inbox[p] # << >> =>
                     LET request == Head(inbox[p])
                         reply == outbox'[p][Len(outbox'[p])]
                     IN  /\ inbox'[p] = Tail(inbox[p])
                         /\ Len(outbox'[p]) = Len(outbox[p]) + 1
                         /\ IF Succeeds(request)
                            THEN reply.error = NoError
                            ELSE /\ reply.result = None
                                 /\ reply.error # NoError
                                 /\ reply.error[Len(reply.error)] =
                                       (IF request.function = "boom"
                                        THEN StrE ELSE request.function)
         /\ (proc[p].pc \in {"loop", "poll"} /\ proc'[p].pc = "done") => proc[p].stop]_vars

\* C12 witness: the worker has answered a Call for a method it does not have
\* with an error, has then served f, and is still running.
C12_Witness ==
    \E p \in Procs :
        /\ proc[p].pc \in {"loop", "poll"}
        /\ ~proc[p].stop
        /\ Len(outbox[p]) = 2
        /\ outbox[p][1] = CallResult(None, FormatTrace("AttributeError", "nosuch"))
        /\ outbox[p][2] = CallResult(FValue("x"), NoError)

\* The worker has exited although nobody asked it to stop.
DiedUnexpectedly(p) == proc[p].pc = "done" /\ ~proc[p].stop

\* C13: when a worker has died unexpectedly no caller is left waiting for a
\* CallResult that will never come: a call whose request went to a dead
\* worker, with nothing left to read on the pipe, has completed.
C13_NoCallerBlocked ==
    \A t \in Tasks :
        ~ /\ task[t].kind \in {"call", "async"}
          /\ task[t].st = "recv"
          /\ DiedUnexpectedly(task[t].p)
          /\ outbox[task[t].p] = << >>

LastReply == agent.replies[Len(agent.replies)]

\* C14: with auto_call, a reply whose calls is null ends the request with
\* that reply's text, and it is the first such reply; a reply whose calls is
\* not null, an empty list included, starts a dispatch round over its calls,
\* and the round is followed by exactly one further prompt, so that there is
\* one prompt per reply.
C14_ReturnsAtText ==
    [][agent.auto_call =>
         /\ (agent.pc = "while" /\ agent' # agent) =>
               IF agent.result.callsNull
               THEN /\ agent'.pc = "ret"
                    /\ agent'.ret = Outcome("return", agent.result.text, NoError)
               ELSE /\ agent'.pc = "for"
                    /\ agent'.calls = agent.result.calls
                    /\ agent'.ret.kind = "none"
         /\ (agent.pc # "ret" /\ agent'.pc = "ret" /\ agent'.ret.kind = "return") =>
               /\ agent.pc = "while"
               /\ agent.result = LastReply
               /\ LastReply.callsNull
               /\ \A k \in 1 .. Len(agent.replies) - 1 : ~agent.replies[k].callsNull
         /\ (agent'.replies # agent.replies /\ agent.replies # << >>) =>
               /\ agent.pc = "for"
               /\ ~LastReply.callsNull
               /\ agent.calls = LastReply.calls
               /\ Len(agent.call_results) = Len(agent.calls)
               /\ Len(agent'.prompts) = Len(agent.prompts) + 1
         /\ agent'.driver = "reply" => Len(agent'.prompts) = Len(agent'.replies)]_vars

\* C14 witness: the request has returned the text of the third reply, after a
\* round for an empty list of calls and a round with a tool call.
C14_Witness ==
    /\ agent.auto_call
    /\ agent.pc = "ret"
    /\ agent.ret = Outcome("return", "answer", NoError)
    /\ Len(agent.replies) = 3
    /\ ~agent.replies[1].callsNull
    /\ agent.replies[1].calls = << >>
    /\ Len(agent.replies[2].calls) >= 1

\* A reply in which not exactly one of text and calls is populated.
NonConforming(r) == (r.text = None) = r.callsNull

\* C15: a request in which the model gave a non-conforming reply ends with an
\* error (ModelProtocolError), with and without auto_call: it never returns
\* an answer.
C15_ProtocolError ==
    (/\ agent.pc = "ret"
     /\ agent.driver = "reply"
     /\ \E k \in 1 .. Len(agent.replies) : NonConforming(agent.replies[k]))
        => agent.ret.kind # "return"

\* C16: in the agent loop a tool call that ToolManager.call ended with an
\* exception (RuntimeError for what the tool raised, ValueError for a tool that
\* is not registered) gives a CallResult with null result and the error's
\* repr, at the call's position in the results; the other calls of the reply
\* are made all the same, the results go to the model, and the exception does
\* not end the request.
C16_ToolErrorSurfaced ==
    agent.auto_call =>
      /\ \A k \in 1 .. Len(agent.sup) :
            agent.sup[k].out.kind # "return" =>
               /\ agent.sup[k].cr.result = None
               /\ agent.sup[k].cr.error # NoError
               /\ agent.sup[k].cr.error[1] = agent.sup[k].out.kind
      /\ \A j \in 1 .. Len(agent.call_results) :
            agent.call_results[j] =
               agent.sup[Len(agent.sup) - Len(agent.trace) \div 2 + j].cr
      /\ agent.ret.kind \notin {"RemoteError"}
      /\ agent.ret.kind = "NotFound" => ~HasAi(agent.name)
      /\ (agent.pc = "while" /\ Len(agent.prompts) > 1) =>
            /\ agent.prompts[Len(agent.prompts)][1] = "json"
            /\ Len(agent.prompts[Len(agent.prompts)][2]) = Len(agent.calls)
      /\ (agent.pc = "ret" /\ agent.driver = "reply") =>
            Len(agent.sup) = Len(FlatCalls(agent.replies))

\* C16 witness: a reply asked for a method that raises and then for a tool
\* that is not registered; both calls were made, both errors went to the
\* model, and the request has returned the model's answer.
C16_Witness ==
    /\ agent.auto_call
    /\ agent.pc = "ret"
    /\ agent.ret = Outcome("return", "answer", NoError)
    /\ Len(agent.replies) = 2
    /\ Len(agent.sup) = 2
    /\ agent.sup[1].out.kind = "RemoteError"
    /\ agent.sup[2].out.kind = "NotFound"
    /\ agent.prompts[2] = JsonDumps(<<agent.sup[1].cr, agent.sup[2].cr>>)

\* C17: what AiManager.prompt raises in any round (the name is not
\* registered, the vendor call failed, the output did not validate) ends the
\* request with that error: the failing prompt was sent once, and nothing is
\* prompted or called for the request afterwards.
C17_DriverErrorPropagates ==
    [][/\ agent'.driver \notin {"none", "reply"} =>
             /\ agent'.pc = "ret"
             /\ agent'.ret.kind = agent'.driver
             /\ Len(agent'.prompts) = Len(agent'.replies) +
                   (IF agent'.driver = "NotFound" THEN 0 ELSE 1)
       /\ agent.pc = "ret" => agent' = agent]_vars

\* C17 witness: the driver's output failed validation in the second round,
\* after a tool call, and the request ended with that error.
C17_Witness ==
    /\ agent.pc = "ret"
    /\ agent.driver = "ValidationError"
    /\ agent.ret.kind = "ValidationError"
    /\ Len(agent.replies) = 1
    /\ Len(agent.sup) >= 1
    /\ Len(agent.prompts) = 2

\* No two drivers of the registry share a name.
UniqueAi == \A i, j \in 1 .. Len(ais) : ais[i].name = ais[j].name => i = j

\* A registry operation has been entered in this step.
AiStep(op) == aiop'.seq # aiop.seq /\ aiop'.op = op

\* C18: model names stay unique.  add_ai of a registered name fails with
\* AlreadyExists and the driver registered under the name stays; add_ai
\* whose driver cannot be constructed fails and changes nothing; otherwise
\* the new driver is registered.  remove_ai and prompt of a name that is not
\* registered fail with NotFound and change nothing.
C18_RegistryUnique ==
    [][/\ UniqueAi'
       /\ AiStep("add_ai") =>
            LET config == aiop'.config
            IN  IF HasAi(config.name)
                THEN aiop'.ret = "AlreadyExists" /\ ais' = ais
                ELSE IF config.type \notin SupportedTypes \/ config.fails
                THEN aiop'.ret \in {"UnsupportedType", "DriverError"} /\ ais' = ais
                ELSE /\ aiop'.ret = "ok"
                     /\ ais' = Append(ais, Driver(config.name, config.type, config.key))
       /\ ((AiStep("remove_ai") \/ AiStep("prompt")) /\ ~HasAi(aiop'.name)) =>
            aiop'.ret = "NotFound" /\ ais' = ais]_vars

\* C18 witness: add_ai with the name of a registered model and another key
\* was refused, and the driver first registered is still the one in place.
C18_Witness ==
    /\ aiop.op = "add_ai"
    /\ aiop.ret = "AlreadyExists"
    /\ Len(ais) = 2
    /\ HasAi(aiop.name)
    /\ ais[AiOf(aiop.name)].key # aiop.config.key

\* C18 (other cases): a failed construction and a remove_ai of an unknown name.
C18_WitnessFailed ==
    /\ aiop.op = "add_ai"
    /\ aiop.ret = "DriverError"
    /\ ~HasAi(aiop.name)
    /\ Len(ais) = 1

\* C19: when register_tools has returned, every model that was registered has
\* been sent exactly one announcement, whether or not another model's
\* announcement failed, and the value returned is true exactly when no
\* announcement failed.
C19_Broadcast ==
    /\ reg.st = "wait" => reg.names = [i \in 1 .. Len(ais) |-> ais[i].name]
    /\ \A i \in 1 .. Len(reg.names) : reg.sent[i] <= 1
    /\ reg.st = "done" =>
          /\ \A i \in 1 .. Len(reg.names) : reg.sent[i] = 1
          /\ (reg.ret = "True") = (\A i \in 1 .. Len(reg.names) : reg.out[i] = "ok")
          /\ reg.ret \in {"True", "False"}

\* C19 witness: the first model's announcement failed, the second model got
\* its announcement, and register_tools returned false.
C19_Witness ==
    /\ reg.st = "done"
    /\ Len(reg.names) = 2
    /\ reg.out = <<"error", "ok">>
    /\ reg.sent = <<1, 1>>
    /\ reg.ret = "False"

\* The tools and the models of the configuration start() runs with.
BootToolNames == {boot.tools[i][1] : i \in 1 .. Len(boot.tools)}
BootAiNames == [i \in 1 .. Len(boot.ais) |-> boot.ais[i].name]

\* C20: start() adds no model before every configured tool has its worker
\* started; it calls register_tools at most once, when every configured model
\* is registered, with the specs of every configured tool, and it returns
\* only when every configured model has been sent them.
C20_StartOrder ==
    /\ ais # << >> =>
          \A n \in BootToolNames : Has(n) /\ proc[ConnProc(n)].pc # "unused"
    /\ reg.n <= 1
    /\ reg.n = 1 =>
          /\ [i \in 1 .. Len(ais) |-> ais[i].name] = BootAiNames
          /\ reg.names = BootAiNames
          /\ reg.tools = [i \in 1 .. Len(boot.tools) |->
                            [name |-> boot.tools[i][1], specs |-> SPECS]]
    /\ (boot.pc = "done" /\ boot.ret = "ok") =>
          /\ reg.n = 1
          /\ reg.st = "done"
          /\ \A i \in 1 .. Len(reg.names) : reg.sent[i] = 1

\* C20 witness: start() has returned for a configuration of two tools, and
\* the model has been sent the specs of both.
C20_Witness ==
    /\ boot.pc = "done"
    /\ boot.ret = "ok"
    /\ Len(boot.tools) = 2
    /\ Len(reg.tools) = 2
    /\ reg.sent = <<1>>

\* C20 (two models): start() has returned and both models were sent the specs.
C20_WitnessModels ==
    /\ boot.pc = "done"
    /\ boot.ret = "ok"
    /\ Len(boot.ais) = 2
    /\ reg.sent = <<1, 1>>

\* C21 as stated: stop() removes the models first: no tool worker is being
\* stopped while a model is still registered, and when stop() has returned
\* the registry holds no model and the supervisor no tool.
C21_ModelsThenTools ==
    /\ halt.pc = "join" => ais = << >>
    /\ (halt.pc = "done" /\ halt.ret = "ok") => (ais = << >> /\ conns = << >>)

\* C21 as amended: stop() stops the tools first: it removes no model while a
\* tool is still registered, and when stop() has returned the registry holds
\* no model and the supervisor no tool.
C21_ToolsThenModels ==
    [][/\ (halt.pc # "off" /\ ais' # ais) => (conns = << >> /\ conns' = << >>)
       /\ (halt'.pc = "done" /\ halt'.ret = "ok") => (ais' = << >> /\ conns' = << >>)]_vars

\* C21 witness: stop() has returned after stopping two tools and then
\* removing a model.
C21_Witness ==
    /\ halt.pc = "done"
    /\ halt.ret = "ok"
    /\ Len(halt.names) = 2
    /\ Len(halt.models) >= 1
    /\ aiop.op = "remove_ai"
    /\ aiop.ret = "ok"

\* C21 (two models): stop() has returned after removing two models.
C21_WitnessModels ==
    /\ halt.pc = "done"
    /\ halt.ret = "ok"
    /\ Len(halt.names) = 1
    /\ Len(halt.models) = 2
    /\ aiop.name = "m2"

\* C22: stop() never waits without end on a worker's channel: it is never
\* left in tools(), receiving from a worker that has died and has nothing
\* more to send.
C22_StopNeverWaitsOnChannel ==
    ~ /\ halt.pc = "wait_specs"
      /\ \E i \in 1 .. Len(tinv.order) :
            /\ task[tinv.order[i]].st = "recv"
            /\ DiedUnexpectedly(task[tinv.order[i]].p)
            /\ inbox[task[tinv.order[i]].p] # << >>
            /\ outbox[task[tinv.order[i]].p] = << >>

\* C23: whenever the broker routes a frame, the frame [A, B, body] that peer
\* A sent to peer B reaches B's socket as [A, body], behind what B was sent
\* before and with the payload as sent; this holds for requests and replies
\* alike, and nobody else's socket receives anything.
C23_Envelope ==
    [][(brk.pc = "run" /\ wire # << >> /\ wire' = Tail(wire)) =>
          LET f == Head(wire)
          IN  sock' = [p \in Peers |->
                         IF p = f.dst
                         THEN Append(sock[p], [src |-> f.src, content |-> f.content])
                         ELSE sock[p]]]_vars

\* C23 witness: the server has been delivered A's request as [A, body] and A
\* has been delivered the server's reply as [jaiger, body'].
C23_Witness ==
    /\ sock[ServerId] = <<[src |-> "A", content |-> Call("f", "x")]>>
    /\ sock["A"] = <<[src |-> ServerId, content |-> RpcResponse("fx", EmptyString)]>>

\* C24: the broker's loop and the server's loop end by their stop event only:
\* a task that is no longer in its loop was asked to stop.
C24_TasksEndOnlyByStop ==
    /\ brk.pc # "run" => brk.stop
    /\ srv.pc # "poll" => srv.stop

\* The frames the server has sent to client c that are on their way.
RepliesTo(c) ==
    Cardinality({k \in 1 .. Len(wire) : wire[k].src = ServerId /\ wire[k].dst = c})
      + Cardinality({k \in 1 .. Len(sock[c]) : sock[c][k].src = ServerId})

\* C25: a request that was validated and submitted is answered once its
\* callback has finished: the server task has not ended on its own with the
\* callback finished and no reply sent to the request's sender.
C25_SubmittedAnswered ==
    \A i \in 1 .. Len(srv.futures) :
        (srv.futures[i].st = "done" /\ srv.pc = "dead" /\ ~srv.stop)
            => RepliesTo(srv.futures[i].by) > 0

Received(i) == cli["A"][i].pc = "done" /\ cli["A"][i].got # 0

\* C27: call() is never left waiting without end (it is not held in its send,
\* an execution that is receiving has a frame to receive, one that polls can
\* time out) and sends its request no more than once; it raises TimeoutError
\* exactly when no reply arrived, and with a reply it returns the result when
\* the reply's error is empty and raises the error otherwise.
C27_CallTerminates ==
    /\ Len(wire) <= Len(cli["A"])
    /\ \A i \in 1 .. Len(cli["A"]) :
          LET e == cli["A"][i]
              r == ServerAnswer(cli["A"][e.got].req)
          IN  /\ e.pc # "send"
              /\ e.pc = "recv" => sock["A"] # << >>
              /\ (e.pc = "done" /\ e.got = 0) => e.out = Outcome("TimeoutError", None, NoError)
              /\ (Received(i) /\ r.error = EmptyString) =>
                    e.out = Outcome("return", r.result, NoError)
              /\ (Received(i) /\ r.error # EmptyString) =>
                    e.out = Outcome("RuntimeError", None, r.error)

\* C27 (connected): on a socket that is connected to the broker, one call has
\* raised TimeoutError and the next one has returned the result of its request.
C27_Witness ==
    /\ Len(cli["A"]) = 2
    /\ cli["A"][1].out.kind = "TimeoutError"
    /\ cli["A"][2].req = Call("f", "y")
    /\ cli["A"][2].got = 2
    /\ cli["A"][2].out = Outcome("return", "fy", NoError)

\* C27 (connected, error): a call has raised the error its reply carried.
C27_WitnessError ==
    /\ Len(cli["A"]) >= 1
    /\ cli["A"][1].req = Call("boom", "x")
    /\ cli["A"][1].got = 1
    /\ cli["A"][1].out = Outcome("RuntimeError", None, FormatTrace("RuntimeError", StrE))

C30_HttpCallTotal ==
    \A k \in 1 .. Len(http) :
        LET call == http[k].call
            out == http[k].out
        IN  /\ out.kind = "return"
            /\ call.function = "f" => out.val = CallResult(FValue(call.args), NoError)
            /\ call.function = "boom" =>
                  out.val = CallResult(None, FormatTrace("RuntimeError", StrE))
            /\ call.function \notin {"f", "boom"} =>
                  out.val = CallResult(None, FormatTrace("KeyError", call.function))

\* C30 witness: the endpoint has served a call that returned, a call whose
\* callback raised and a call of an unknown function.
C30_Witness ==
    /\ Len(http) = 3
    /\ http[1].call = Call("f", "y") /\ http[1].out.val = CallResult("fy", NoError)
    /\ http[2].call = Call("boom", "x") /\ http[2].out.val.result = None
    /\ http[3].call = Call("nosuch", "x") /\ http[3].out.val.error # NoError

\* A request is inside the driver's prompt: its text is in the history and
\* the reply is not yet.
InDriver(r) == chat.run[r].pc \in {"chat", "store"}

\* C31: prompts to one model are serialised: no two requests are inside the
\* driver's prompt at the same time, and in the model's conversation a reply
\* that asks for tool calls is followed by nothing but the results of those
\* calls, sent by the request the reply went to.
C31_PromptsSerialised ==
    /\ \A r, q \in Asks : (InDriver(r) /\ InDriver(q)) => r = q
    /\ \A k \in 1 .. Len(chat.hist) - 1 :
          (chat.hist[k].role = "assistant" /\ chat.hist[k].kind = "calls")
              => chat.hist[k + 1] = Message("user", chat.hist[k].r, "results")

\* The process whose pipe a step has sent a Call on.
SentOn(p) == Len(inbox'[p]) > Len(inbox[p])
Registered(p) == \E i \in 1 .. Len(conns) : conns[i].p = p

\* C32: the map is read under protection from stop(): no call ends with the
\* KeyError of a lookup that found the entry gone, and no Call is sent on the
\* channel of a worker whose entry stop() has removed.
C32_MapReadsProtected ==
    [][/\ \A t \in Tasks : task'[t].out.kind # "KeyError"
       /\ \A p \in Procs : SentOn(p) => Registered(p)]_vars

\* The transports the configuration asked for are running.
FrontRunning ==
    /\ front.rpc # "none" => front.rpc = "running"
    /\ front.http # "none" => front.http = "running"

\* C33: once start() has returned, the broker and the RPC server run when
\* the configuration has rpc settings and the HTTP server runs when it has
\* http settings; once stop() has returned none of them runs.
C33_TransportsFollowStart ==
    /\ (boot.pc = "done" /\ boot.ret = "ok" /\ halt.pc = "off") => FrontRunning
    /\ (halt.pc = "done" /\ halt.ret = "ok") =>
          (front.rpc # "running" /\ front.http # "running")

\* C34: stop_many runs per entry: a name that stop_many has dropped from the
\* map had its worker signalled to stop (and joined) before.
C34_StopManyPerEntry ==
    \A n \in Names :
        (orch.op = "stop_many" /\ orch.pc = "idle" /\ orch.ret = "ok"
           /\ \E i \in 1 .. Len(orch.batch) : orch.batch[i] = n)
            => proc[life[n].p].stop

\* The teardown() calls a worker that has exited has made.
Teardowns(p) == IF proc[p].fault = "ctor" THEN 0 ELSE 1

\* C35: a worker whose stop signal is set leaves its loop at the next test
\* of the signal and exits; a worker that has exited has closed its end and
\* has run teardown() once, after a failed setup() too, and never when the
\* constructor failed; nothing is sent on a closed end.
C35_WorkerShutdown ==
    /\ [][\A p \in Procs :
            /\ (proc[p].pc = "loop" /\ proc[p].stop /\ proc'[p] # proc[p])
                  => proc'[p].pc = "done"
            /\ proc'[p].pc = "done"
                  => (proc'[p].closed /\ proc'[p].teardowns = Teardowns(p))
            /\ proc[p].closed => Len(outbox'[p]) <= Len(outbox[p])]_vars
    /\ \A p \in Procs : (proc[p].stop /\ proc[p].pc # "unused") ~> (proc[p].pc = "done")

\* C35 witness: the worker has served a call, was then signalled to stop and
\* has exited with one teardown() and its end closed.
C35_Witness ==
    /\ proc[1].pc = "done"
    /\ proc[1].stop
    /\ proc[1].fault = "none"
    /\ proc[1].teardowns = 1
    /\ proc[1].closed
    /\ \E t \in Tasks : task[t].st = "done" /\ task[t].out.kind = "return"

\* C35 (setup): the worker has exited after setup() raised, with one teardown().
C35_WitnessSetup ==
    /\ proc[1].pc = "done"
    /\ proc[1].fault = "setup"
    /\ proc[1].teardowns = 1
    /\ proc[1].closed

\* C35 (constructor): the worker has exited after the constructor raised,
\* without teardown().
C35_WitnessCtor ==
    /\ proc[1].pc = "done"
    /\ proc[1].fault = "ctor"
    /\ proc[1].teardowns = 0
    /\ proc[1].closed

\* C36: the worker's channel carries responses only: every step that puts a
\* CallResult on a worker's end takes one Call from it, a failing constructor
\* or setup() included.
C36_ResponsesOnly ==
    [][\A p \in Procs :
          Len(outbox'[p]) > Len(outbox[p])
              => (Len(outbox'[p]) = Len(outbox[p]) + 1 /\ Len(inbox'[p]) = Len(inbox[p]) - 1)]_vars

\* The worker has exited because it was signalled to stop.
Stopped(p) == proc[p].pc = "done" /\ proc[p].stop

\* C37: a Call sent on a tool's channel is answered or failed also when stop
\* is requested meanwhile: no caller is left in recv on a worker that has
\* exited on its stop signal with nothing left to read on the pipe.
C37_AnsweredDespiteStop ==
    \A t \in Tasks :
        ~ /\ task[t].kind \in {"call", "async"}
          /\ task[t].st = "recv"
          /\ Stopped(task[t].p)
          /\ outbox[task[t].p] = << >>

\* Not public: one of the reserved names, or a name that begins with an
\* underscore.
Reserved(function) == function \in {"config", "setup", "teardown", "_get_specs"}

\* C38: a Call that names a reserved or underscore-prefixed method is not
\* executed: the worker sends an error CallResult for it and runs nothing.
C38_OnlyAdvertised ==
    [][\A p \in Procs :
          (/\ proc[p].pc = "poll"
           /\ inbox[p] # << >>
           /\ inbox'[p] = Tail(inbox[p])
           /\ Reserved(Head(inbox[p]).function))
              => /\ proc'[p].ran = proc[p].ran
                 /\ Len(outbox'[p]) = Len(outbox[p]) + 1
                 /\ outbox'[p][Len(outbox'[p])].error # NoError]_vars

\* The worker is one the supervisor's map leads to.
InMap(p) == \E n \in DOMAIN processes : processes[n] = p

\* C39: the channel map and the worker map have the same keys, and every
\* worker that was started and not signalled to stop is the worker of some
\* entry.
C39_StartedReachable ==
    /\ {conns[i].name : i \in 1 .. Len(conns)} = DOMAIN processes
    /\ \A p \in Procs : (proc[p].pc # "unused" /\ ~proc[p].stop) => InMap(p)

\* The request fails in the server task itself: its payload is no Call, or it
\* names a function the callback table does not have.
Fails(m) == ~Validates(m.content) \/ m.content.function \notin RpcCallbacks

\* C40: the server answers a failing request: the turn of its loop that takes
\* a request whose payload does not validate, or whose function is missing
\* from the callback table, sends a reply to the request's sender.
C40_FailuresAnswered ==
    [][(/\ srv.pc = "poll"
        /\ ~srv.stop
        /\ sock[ServerId] # << >>
        /\ sock'[ServerId] = Tail(sock[ServerId])
        /\ Fails(Head(sock[ServerId])))
           => \E k \in 1 .. Len(wire') :
                 /\ k > Len(wire)
                 /\ wire'[k].src = ServerId
                 /\ wire'[k].dst = Head(sock[ServerId]).src
                 /\ wire'[k].content.error # EmptyString]_vars

====
